---------------------------- MODULE Spec2Model ----------------------------
(***************************************************************************)
(* Model of the two simulation engines of MortgageCalculator and of the    *)
(* scenario batch that drives the second one:                              *)
(*   calc_loan_repayment.py    calculate_mortgage_schedule                 *)
(*   moving_plan_analysis.py   calculate_moving_plan_analysis              *)
(* Each loop iteration of the source is one action.  Money amounts are     *)
(* integers; the inputs are chosen so that the float arithmetic of the     *)
(* source is exact on them (integral amounts, an integral periodic rate).  *)
(***************************************************************************)
EXTENDS Integers, Sequences, FiniteSets, TLC

VARIABLES
    \* ---- calculate_mortgage_schedule ----
    terms,                  \* the arguments of the call
    lpc,                    \* position in calculate_mortgage_schedule
    current_loan_balance,
    current_offset_balance,
    period_counter,
    schedule_data,
    loan_start_date,
    period_in_loan_year_counts,
    \* ---- calc_loan_repayment.py __main__ ----
    lmpc,                   \* position in the main block
    answers,                \* what the user types at the prompts
    loan_summary,           \* the results written to the sheet and printed
    first_returned,         \* what an earlier call with the same arguments returned
    \* ---- calculate_moving_plan_analysis ----
    cargs,                  \* the arguments of the call
    cpc,                    \* position in calculate_moving_plan_analysis
    settlement_date,
    move_out_date,
    end_date,
    cash_flow_events,
    add_calls,              \* the calls of add_cash_flow_event, in call order
    current_month,
    mortgage_date,
    mortgage_payment_number,
    current_date,
    current_balance,
    cash_flow_data,
    returned,               \* what the call returned to its caller
    \* ---- moving_plan_analysis.py __main__ ----
    mpc,                    \* position in the main block
    inputs,                 \* what the user types at the prompts
    starting_balance,
    settlement_dates,
    scenarios_data,
    report                  \* the sheets written and the lines printed

loanMainVars == <<lmpc, answers, loan_summary, first_returned>>
loanVars == <<terms, lpc, current_loan_balance, current_offset_balance,
              period_counter, schedule_data, loan_start_date,
              period_in_loan_year_counts, loanMainVars>>
cashVars == <<cargs, cpc, settlement_date, move_out_date, end_date,
              cash_flow_events, add_calls, current_month, mortgage_date,
              mortgage_payment_number, current_date, current_balance,
              cash_flow_data>>
mainVars == <<mpc, inputs, starting_balance, settlement_dates, scenarios_data, report>>
vars == <<loanVars, cashVars, returned, mainVars>>

NoValue == [none |-> TRUE]

----------------------------------------------------------------------------
(* Generic helpers *)

Max(a, b) == IF a >= b THEN a ELSE b

----------------------------------------------------------------------------
(* Calendar: datetime, timedelta, strptime and strftime as the engine uses them. *)
(* A date is its proleptic Gregorian ordinal (01/01/0001 = 1); a date string   *)
(* "DD/MM/YYYY" is the triple <<DD, MM, YYYY>>.                                *)

IsLeap(y) == (y % 4 = 0) /\ ((y % 100 # 0) \/ (y % 400 = 0))

DaysInMonth(y, m) ==
    IF m = 2 THEN (IF IsLeap(y) THEN 29 ELSE 28)
    ELSE IF m \in {4, 6, 9, 11} THEN 30 ELSE 31

DaysBeforeYear(y) ==
    (y - 1) * 365 + ((y - 1) \div 4) - ((y - 1) \div 100) + ((y - 1) \div 400)

RECURSIVE DaysBeforeMonth(_, _)
DaysBeforeMonth(y, m) ==
    IF m = 1 THEN 0 ELSE DaysBeforeMonth(y, m - 1) + DaysInMonth(y, m - 1)

ValidDate(y, m, d) ==
    /\ y \in 1..9999
    /\ m \in 1..12
    /\ d \in 1..DaysInMonth(y, m)

\* datetime(y, m, d)
ToOrdinal(y, m, d) == DaysBeforeYear(y) + DaysBeforeMonth(y, m) + d

RECURSIVE YearFrom(_, _)
YearFrom(n, y) == IF n <= DaysBeforeYear(y + 1) THEN y ELSE YearFrom(n, y + 1)

\* date.year
YearOf(n) == YearFrom(n, (n \div 366) + 1)

RECURSIVE MonthFrom(_, _, _)
MonthFrom(rest, y, m) ==
    IF rest <= DaysInMonth(y, m) THEN m ELSE MonthFrom(rest - DaysInMonth(y, m), y, m + 1)

\* date.month
MonthOf(n) == MonthFrom(n - DaysBeforeYear(YearOf(n)), YearOf(n), 1)

\* date.day
DayOf(n) == n - DaysBeforeYear(YearOf(n)) - DaysBeforeMonth(YearOf(n), MonthOf(n))

\* date.weekday(): Monday is 0, Sunday is 6.
Weekday(n) == (n + 6) % 7

\* datetime.strptime(s, "%d/%m/%Y") succeeds.
Parses(str) == ValidDate(str[3], str[2], str[1])

\* datetime.strptime(s, "%d/%m/%Y")
strptime(str) == ToOrdinal(str[3], str[2], str[1])

\* date.strftime("%d/%m/%Y")
strftime(n) == <<DayOf(n), MonthOf(n), YearOf(n)>>

----------------------------------------------------------------------------
(* Amortization engine: inputs *)

MaxLoan == 6
MaxPayment == 8
MaxOffset == 2
MaxGrowth == 2
MaxDuration == 1

PaymentTypes == {"Weekly", "Fortnightly", "Monthly"}

\* line 227: the start date the main block passes when none is typed.
default_loan_start == <<29, 8, 2025>>

\* a leap day, the ends of a month and of a year, the first of a year, and
\* a day that does not exist.
LoanStartDates ==
    {<<29, 2, 2024>>, <<31, 1, 2025>>, <<31, 12, 2025>>, <<1, 1, 2026>>,
     <<31, 6, 2025>>}

\* 2^24: with a periodic rate of 100% a loan this large is the smallest whose
\* payoff takes longer than 24 periods when the payment is first interest + 1.
SlowLoan == 4096 * 4096

\* annual rate 0: no interest is ever charged.
ZeroRateTerms ==
    [loan_amount : (1..MaxLoan) \cup {30, 120},
     payment_type : PaymentTypes \cup {"Quarterly"},
     payment_amount : 1..3,
     duration_years : 1..MaxDuration,
     annual_interest_rate : {0},
     offset_start_balance : {0, MaxOffset},
     offset_growth_per_month : {0, 13},
     loan_start_date_str : {default_loan_start}]

\* annual rate 4095 (= 2^12 - 1): monthly periodic rate exactly 1.
\* One year only: a balance that is not paid off doubles every period.
UnitRateTerms ==
    [loan_amount : 1..MaxLoan,
     payment_type : {"Monthly"},
     payment_amount : 1..MaxPayment,
     duration_years : {1},
     annual_interest_rate : {4095},
     offset_start_balance : 0..MaxOffset,
     offset_growth_per_month : (-1)..MaxGrowth,
     loan_start_date_str : {default_loan_start}]

\* the same rate, a large loan, the payment at or just above the first interest.
SlowTerms ==
    [loan_amount : {SlowLoan},
     payment_type : {"Monthly"},
     payment_amount : {SlowLoan, SlowLoan + 1},
     duration_years : {1},
     annual_interest_rate : {4095},
     offset_start_balance : {0},
     offset_growth_per_month : {0},
     loan_start_date_str : {default_loan_start}]

\* annual rate 0, other start dates: a short loan and one that runs to the cap.
DatedTerms ==
    [loan_amount : {2, 120},
     payment_type : PaymentTypes,
     payment_amount : {1},
     duration_years : 1..MaxDuration,
     annual_interest_rate : {0},
     offset_start_balance : {0},
     offset_growth_per_month : {0},
     loan_start_date_str : LoanStartDates]

LoanTerms == ZeroRateTerms \cup UnitRateTerms \cup SlowTerms \cup DatedTerms

----------------------------------------------------------------------------
(* Amortization engine: pure parts *)

ValidPaymentType(payment_type) == payment_type \in PaymentTypes

periods_per_year(payment_type) ==
    CASE payment_type = "Weekly" -> 52
      [] payment_type = "Fortnightly" -> 26
      [] payment_type = "Monthly" -> 12

RECURSIVE PowUpTo(_, _, _)
\* b^e, not multiplied further once it exceeds lim.
PowUpTo(b, e, lim) ==
    IF e = 0 THEN 1
    ELSE LET p == PowUpTo(b, e - 1, lim) IN IF p > lim THEN p ELSE p * b

\* (1 + annual) ** (1 / ppy) - 1, for the annual rates whose root is integral.
periodic_interest_rate(annual_interest_rate, ppy) ==
    (CHOOSE k \in 1..(1 + annual_interest_rate) :
        PowUpTo(k, ppy, 1 + annual_interest_rate) = 1 + annual_interest_rate) - 1

\* faulty variant: the monthly growth is added every period.
offset_growth_per_period_monthly(offset_growth_per_month, ppy) == offset_growth_per_month

\* offset_growth_per_month / (ppy / 12), for the growths where it is integral.
offset_growth_per_period(offset_growth_per_month, ppy) ==
    (offset_growth_per_month * 12) \div ppy

max_periods(duration_years, ppy) == duration_years * ppy * 2

\* faulty variant: the offset is subtracted without the floor at 0.
effective_loan_balance_for_interest_unfloored(balance, offset) == balance - offset

effective_loan_balance_for_interest(balance, offset) == Max(0, balance - offset)

interest_paid(effective, rate) == effective * rate

\* faulty variant: the subtraction the wrong way round.
principal_paid_swapped(payment_amount, interest) == interest - payment_amount

principal_paid(payment_amount, interest) == payment_amount - interest

\* faulty variant: the final payment is never detected.
IsFinalPayment_never(balance, principal) == FALSE

\* line 122: the payment would overpay the loan.
IsFinalPayment(balance, principal) == balance - principal < 0

\* faulty variant: the overpaying principal is recorded unclamped.
final_principal_unclamped(final, balance, principal) == principal

\* lines 123, 140: the principal recorded for the period.
final_principal(final, balance, principal) ==
    IF final THEN balance ELSE principal

\* faulty variant: the overpaying principal is subtracted in the final period too.
remaining_loan_balance_overpaid(final, balance, principal) == balance - principal

\* lines 125, 128: the balance after the period.
remaining_loan_balance(final, balance, principal) ==
    IF final THEN 0 ELSE balance - principal

\* faulty variant: the scheduled payment is recorded for the final period too.
actual_payment_this_period_scheduled(final, balance, interest, payment_amount) ==
    payment_amount

\* lines 124, 127: the payment recorded for the period.
actual_payment_this_period(final, balance, interest, payment_amount) ==
    IF final THEN balance + interest ELSE payment_amount

\* faulty variant: the loop gives up one period early.
LoopCondition_short(balance, counter, maxp) == balance > 0 /\ counter < maxp - 1

\* faulty variant: the loop runs one period past the cap.
LoopCondition_long(balance, counter, maxp) == balance > 0 /\ counter <= maxp

\* line 66: the while condition.
LoopCondition(balance, counter, maxp) == balance > 0 /\ counter < maxp

\* Python 3 round() of num/den (num >= 0, den > 0): half to even.
Round(num, den) ==
    LET q == num \div den
        r == num % den
    IN  IF 2 * r < den THEN q
        ELSE IF 2 * r > den THEN q + 1
        ELSE IF q % 2 = 0 THEN q ELSE q + 1

\* faulty variant: twelve months are not carried into the years.
RemainingTerm_nocarry(total_actual_periods, i, ppy) ==
    LET remaining_periods == total_actual_periods - i
    IN  [years |-> remaining_periods \div ppy,
         months |-> Round((remaining_periods % ppy) * 12, ppy)]

RemainingTerm(total_actual_periods, i, ppy) ==
    LET remaining_periods == total_actual_periods - i
        years == remaining_periods \div ppy
        months == Round((remaining_periods % ppy) * 12, ppy)
    IN  IF months = 12 THEN [years |-> years + 1, months |-> 0]
        ELSE [years |-> years, months |-> months]

\* faulty variant: a month is counted as 30 days.
current_payment_date_thirty(start, counter, payment_type) ==
    CASE payment_type = "Fortnightly" -> start + (counter - 1) * 14
      [] payment_type = "Weekly" -> start + (counter - 1) * 7
      [] payment_type = "Monthly" -> start + (counter - 1) * 30

\* lines 73-78: loan_start_date + timedelta(days=...).  For Monthly the days
\* are (counter - 1) * (365.25 / 12), a float that is exact (30.4375 = 487/16);
\* the fraction of a day becomes the time of day and the date keeps the floor.
current_payment_date(start, counter, payment_type) ==
    CASE payment_type = "Fortnightly" -> start + (counter - 1) * 14
      [] payment_type = "Weekly" -> start + (counter - 1) * 7
      [] payment_type = "Monthly" -> start + ((counter - 1) * 36525) \div 1200

\* line 88: strftime("%A")
day_of_week(n) ==
    <<"Monday", "Tuesday", "Wednesday", "Thursday", "Friday", "Saturday",
      "Sunday">>[Weekday(n) + 1]

\* line 60: (month, day) of the loan start date.
loan_year_start_offset(start) == <<MonthOf(start), DayOf(start)>>

\* faulty variant: the anniversary itself still belongs to the year before.
loan_year_val_after(payment_date, start) ==
    LET off == loan_year_start_offset(start)
    IN  IF (MonthOf(payment_date) > off[1])
           \/ (MonthOf(payment_date) = off[1] /\ DayOf(payment_date) > off[2])
        THEN YearOf(payment_date) - YearOf(start) + 1
        ELSE YearOf(payment_date) - YearOf(start)

\* lines 91-101
loan_year_val(payment_date, start) ==
    LET off == loan_year_start_offset(start)
    IN  IF (MonthOf(payment_date) > off[1])
           \/ (MonthOf(payment_date) = off[1] /\ DayOf(payment_date) >= off[2])
        THEN YearOf(payment_date) - YearOf(start) + 1
        ELSE YearOf(payment_date) - YearOf(start)

\* lines 104-107: the dict of periods counted so far per loan year, after
\* counting one more period of loan_year.
counted(counts, loan_year) ==
    IF loan_year \in DOMAIN counts
    THEN [counts EXCEPT ![loan_year] = @ + 1]
    ELSE [y \in DOMAIN counts \cup {loan_year} |->
            IF y = loan_year THEN 1 ELSE counts[y]]

PeriodRecord(t, counter, balance, offset, start, counts) ==
    LET ppy == periods_per_year(t.payment_type)
        payment_date == current_payment_date(start, counter, t.payment_type)
        loan_year == loan_year_val(payment_date, start)
        rate == periodic_interest_rate(t.annual_interest_rate, ppy)
        effective == effective_loan_balance_for_interest(balance, offset)
        interest == interest_paid(effective, rate)
        principal == principal_paid(t.payment_amount, interest)
        final == IsFinalPayment(balance, principal)
    IN  [Period |-> counter,
         Year |-> loan_year,
         Period_in_Year |-> counted(counts, loan_year)[loan_year],
         Payment_Date |-> strftime(payment_date),
         Day_of_Week |-> day_of_week(payment_date),
         Starting_Loan_Balance |-> balance,
         Offset_Account_Balance |-> offset,
         Effective_Loan_Balance |-> effective,
         Interest_Paid |-> interest,
         Principal_Paid |-> final_principal(final, balance, principal),
         Payment |-> actual_payment_this_period(final, balance, interest,
                                                t.payment_amount),
         Remaining_Loan_Balance |-> remaining_loan_balance(final, balance, principal)]

----------------------------------------------------------------------------
(* Amortization engine: actions *)

LoanMainIdle ==
    /\ lmpc = "idle"
    /\ answers = NoValue
    /\ loan_summary = NoValue
    /\ first_returned = NoValue

MainIdle ==
    /\ mpc = "idle"
    /\ inputs = NoValue
    /\ starting_balance = 0
    /\ settlement_dates = <<>>
    /\ scenarios_data = <<>>
    /\ report = NoValue

CashIdle ==
    /\ cargs = NoValue
    /\ cpc = "idle"
    /\ settlement_date = 0
    /\ move_out_date = 0
    /\ end_date = 0
    /\ cash_flow_events = <<>>
    /\ add_calls = <<>>
    /\ current_month = 0
    /\ mortgage_date = 0
    /\ mortgage_payment_number = 0
    /\ current_date = 0
    /\ current_balance = 0
    /\ cash_flow_data = <<>>

InitLoan ==
    /\ terms \in LoanTerms
    /\ lpc = "start"
    /\ current_loan_balance = 0
    /\ current_offset_balance = 0
    /\ period_counter = 0
    /\ schedule_data = <<>>
    /\ loan_start_date = 0
    /\ period_in_loan_year_counts = <<>>
    /\ LoanMainIdle
    /\ returned = NoValue
    /\ CashIdle
    /\ MainIdle

\* lines 35-42: an unknown payment_type raises ValueError.
RejectPaymentType ==
    /\ lpc = "start"
    /\ ~ValidPaymentType(terms.payment_type)
    /\ lpc' = "error"
    /\ returned' = [raised |-> "ValueError", line |-> 42]
    /\ UNCHANGED <<terms, current_loan_balance, current_offset_balance,
                   period_counter, schedule_data, loan_start_date,
                   period_in_loan_year_counts, loanMainVars, cashVars, mainVars>>

\* line 47: strptime raises ValueError on a start date that does not exist.
RejectStartDate ==
    /\ lpc = "start"
    /\ ValidPaymentType(terms.payment_type)
    /\ ~Parses(terms.loan_start_date_str)
    /\ lpc' = "error"
    /\ returned' = [raised |-> "ValueError", line |-> 47]
    /\ UNCHANGED <<terms, current_loan_balance, current_offset_balance,
                   period_counter, schedule_data, loan_start_date,
                   period_in_loan_year_counts, loanMainVars, cashVars, mainVars>>

\* faulty variant: the records of the previous call are still in the list.
empty_schedule_data_kept(previous) == previous

\* line 57: schedule_data = [] is a fresh local of every call.
empty_schedule_data(previous) == <<>>

\* lines 44-64: the set-up before the loop.
StartSchedule ==
    /\ lpc = "start"
    /\ ValidPaymentType(terms.payment_type)
    /\ Parses(terms.loan_start_date_str)
    /\ loan_start_date' = strptime(terms.loan_start_date_str)
    /\ current_loan_balance' = terms.loan_amount
    /\ current_offset_balance' = terms.offset_start_balance
    /\ period_counter' = 0
    /\ schedule_data' = empty_schedule_data(schedule_data)
    /\ period_in_loan_year_counts' = <<>>
    /\ lpc' = "loop"
    /\ UNCHANGED <<terms, returned, loanMainVars, cashVars, mainVars>>

\* lines 66-151: one iteration of the while loop.
PayPeriod ==
    /\ lpc = "loop"
    /\ LET ppy == periods_per_year(terms.payment_type)
           maxp == max_periods(terms.duration_years, ppy)
       IN  /\ LoopCondition(current_loan_balance, period_counter, maxp)
           /\ LET row == PeriodRecord(terms, period_counter + 1,
                                      current_loan_balance, current_offset_balance,
                                      loan_start_date, period_in_loan_year_counts)
              IN  /\ period_counter' = period_counter + 1
                  /\ period_in_loan_year_counts' =
                        counted(period_in_loan_year_counts, row.Year)
                  /\ schedule_data' = Append(schedule_data, row)
                  /\ current_loan_balance' = row.Remaining_Loan_Balance
                  /\ current_offset_balance' = current_offset_balance
                        + offset_growth_per_period(terms.offset_growth_per_month, ppy)
                  \* line 150: break once the loan is paid off
                  /\ lpc' = IF row.Remaining_Loan_Balance <= 0 THEN "post" ELSE "loop"
    /\ UNCHANGED <<terms, returned, loan_start_date, loanMainVars, cashVars, mainVars>>

\* line 66: the loop condition fails (balance 0 or the safety cap reached).
ExitLoop ==
    /\ lpc = "loop"
    /\ ~LoopCondition(current_loan_balance, period_counter,
                      max_periods(terms.duration_years,
                                  periods_per_year(terms.payment_type)))
    /\ lpc' = "post"
    /\ UNCHANGED <<terms, current_loan_balance, current_offset_balance,
                   period_counter, schedule_data, loan_start_date,
                   period_in_loan_year_counts, returned, loanMainVars,
                   cashVars, mainVars>>

\* lines 153-195: the remaining-term post-pass and the return of the DataFrame.
FinishSchedule ==
    /\ lpc = "post"
    /\ LET ppy == periods_per_year(terms.payment_type)
           total_actual_periods == period_counter
           withTerm == [i \in 1..Len(schedule_data) |->
                          [r \in {"row", "Remaining_Term"} |->
                              IF r = "row" THEN schedule_data[i]
                              ELSE RemainingTerm(total_actual_periods, i, ppy)]]
       IN  returned' = [schedule |-> withTerm]
    /\ lpc' = "done"
    /\ UNCHANGED <<terms, current_loan_balance, current_offset_balance,
                   period_counter, schedule_data, loan_start_date,
                   period_in_loan_year_counts, loanMainVars, cashVars, mainVars>>

NextLoan ==
    \/ RejectPaymentType
    \/ RejectStartDate
    \/ StartSchedule
    \/ PayPeriod
    \/ ExitLoop
    \/ FinishSchedule

SpecLoan == InitLoan /\ [][NextLoan]_vars

\* a caller calls calculate_mortgage_schedule a second time with the
\* arguments of the call that just ended.  What the first call left in the
\* engine's variables stays where it is: the second call starts again at
\* line 35.
CallAgain ==
    /\ lmpc = "idle"
    /\ lpc \in {"done", "error"}
    /\ first_returned = NoValue
    /\ first_returned' = returned
    /\ returned' = NoValue
    /\ lpc' = "start"
    /\ UNCHANGED <<terms, current_loan_balance, current_offset_balance,
                   period_counter, schedule_data, loan_start_date,
                   period_in_loan_year_counts, lmpc, answers, loan_summary,
                   cashVars, mainVars>>


----------------------------------------------------------------------------
(* Cash-flow engine: inputs *)

StartingBalances == {0, 93000}

\* a whole week, mid-month, and the month ends; May to December 2025.
SettlementDays == (1..7) \cup {15} \cup (28..31)
SettlementMonths == 5..12

SettlementStrings ==
    {<<d, m, 2025>> : d \in SettlementDays, m \in SettlementMonths}

CashArgs ==
    [starting_balance : StartingBalances, settlement_date_str : SettlementStrings]

----------------------------------------------------------------------------
(* Cash-flow engine: pure parts *)

\* faulty variant: the Saturday is taken seven days after the Sunday.
MoveOutDate_plus7(settlement) ==
    LET toSunday == (6 - Weekday(settlement)) % 7
        days_to_end_of_week == IF toSunday = 0 THEN 7 ELSE toSunday
    IN  settlement + days_to_end_of_week + 7

\* faulty variant: a Sunday settlement is not moved to the next Sunday.
MoveOutDate_noskip(settlement) ==
    settlement + ((6 - Weekday(settlement)) % 7) + 6

\* lines 27-34
MoveOutDate(settlement) ==
    LET toSunday == (6 - Weekday(settlement)) % 7
        days_to_end_of_week == IF toSunday = 0 THEN 7 ELSE toSunday
        end_of_current_week == settlement + days_to_end_of_week
    IN  end_of_current_week + 6

\* lines 37-43: the year and month handed to settlement_date.replace().
EndYear(settlement) ==
    IF MonthOf(settlement) >= 11 THEN YearOf(settlement) + 1 ELSE YearOf(settlement)

EndMonth(settlement) ==
    IF MonthOf(settlement) >= 11
    THEN (IF MonthOf(settlement) = 11 THEN 1 ELSE 2)
    ELSE MonthOf(settlement) + 2

\* replace() raises ValueError when the day does not exist in the new month.
ReplaceRaises(settlement) ==
    ~ValidDate(EndYear(settlement), EndMonth(settlement), DayOf(settlement))

\* lines 39, 41, 43: the line of the replace() call that the month selects.
ReplaceLine(settlement) ==
    IF MonthOf(settlement) >= 11
    THEN (IF MonthOf(settlement) = 11 THEN 39 ELSE 41)
    ELSE 43

EndDate(settlement) ==
    ToOrdinal(EndYear(settlement), EndMonth(settlement), DayOf(settlement))

\* line 62: the anchor date 01/08/2025.
start_date == ToOrdinal(2025, 8, 1)

\* line 145
analysis_start_date == start_date - 1

Event(date, text, number, amount, milestone) ==
    [date |-> date, description |-> <<text, number>>,
     amount |-> amount, milestone |-> milestone]

\* faulty variant: a new event is put in front of the day's list.
add_cash_flow_event_front(events, ev) ==
    LET date_key == strftime(ev.date)
        item == [description |-> ev.description, amount |-> ev.amount,
                 milestone |-> ev.milestone]
    IN  IF date_key \in DOMAIN events
        THEN [events EXCEPT ![date_key] = <<item>> \o @]
        ELSE events @@ (date_key :> <<item>>)

\* lines 51-59
add_cash_flow_event(events, ev) ==
    LET date_key == strftime(ev.date)
        item == [description |-> ev.description, amount |-> ev.amount,
                 milestone |-> ev.milestone]
    IN  IF date_key \in DOMAIN events
        THEN [events EXCEPT ![date_key] = Append(@, item)]
        ELSE events @@ (date_key :> <<item>>)

RECURSIVE AddAll(_, _, _)
\* the calls of add_cash_flow_event for evs[1..n], in order.
AddAll(events, evs, n) ==
    IF n = 0 THEN events ELSE add_cash_flow_event(AddAll(events, evs, n - 1), evs[n])

\* what each call leaves in the call log.
Logged(evs) ==
    [i \in 1..Len(evs) |->
        [date_key |-> strftime(evs[i].date), description |-> evs[i].description,
         amount |-> evs[i].amount, milestone |-> evs[i].milestone]]

\* lines 61-100: the one-off events, in the order of the calls.
FixedEvents(balance, settlement, move_out) ==
    << Event(start_date - 1, "Starting Balance", 0, balance, "INITIAL"),
       Event(start_date, "Additional Savings #1", 0, 5700, "INCOME"),
       Event(start_date, "Additional Savings #2", 0, 1200, "INCOME"),
       Event(start_date, "Additional Savings #3", 0, 500, "INCOME"),
       Event(settlement, "House Settlement Payment", 0, -52046, "SETTLEMENT"),
       Event(settlement + 1, "Cleaning House", 0, -200, "POST-SETTLEMENT"),
       Event(settlement + 1, "Fixing Windows", 0, -300, "POST-SETTLEMENT"),
       Event(settlement + 2, "Bathroom Grouting & Sealing", 0, -1000, "POST-SETTLEMENT"),
       Event(settlement + 2, "2-Week Rent Payment", 0, -1400, "POST-SETTLEMENT"),
       Event(settlement + 3, "Ensuite Bathroom Fixes", 0, -20000, "POST-SETTLEMENT"),
       Event(move_out, "Furniture Purchase", 0, -3000, "MOVING"),
       Event(move_out, "Removalists", 0, -1200, "MOVING"),
       Event(ToOrdinal(2025, 8, 26), "HYKO - Sydney (Day 1)", 0, 0, "HYKO"),
       Event(ToOrdinal(2025, 8, 27), "HYKO - Sydney (Day 2)", 0, 0, "HYKO"),
       Event(ToOrdinal(2025, 8, 15), "Building Inspection Due", 0, 0, "INSPECTION"),
       Event(ToOrdinal(2025, 8, 20), "Insurance Policy Review", 0, 0, "INSURANCE"),
       Event(settlement - 7, "Final Walkthrough", 0, 0, "WALKTHROUGH"),
       Event(settlement - 3, "Pre-Settlement Meeting", 0, 0, "MEETING"),
       Event(move_out - 1, "Packing Day", 0, 0, "PACKING"),
       Event(move_out + 1, "Unpacking & Setup", 0, 0, "UNPACKING") >>

\* faulty variant: a month that begins on the settlement date counts as
\* pre-settlement.
MonthlyIncomeEvents_onsettlement(month, settlement) ==
    IF month = start_date THEN <<>>
    ELSE IF month <= settlement
    THEN << Event(month, "Monthly Savings #1 (Pre-Settlement)", 0, 5700,
                  "PRE-SETTLEMENT INCOME"),
            Event(month, "Monthly Savings #2 (Pre-Settlement)", 0, 500,
                  "PRE-SETTLEMENT INCOME") >>
    ELSE << Event(month,
                  "Monthly Income (Post-Settlement - Mortgage Allocation + Savings)",
                  0, 8261, "MONTHLY INCOME") >>

\* faulty variant: the anchor month is not skipped.
MonthlyIncomeEvents_anchor(month, settlement) ==
    IF month < settlement
    THEN << Event(month, "Monthly Savings #1 (Pre-Settlement)", 0, 5700,
                  "PRE-SETTLEMENT INCOME"),
            Event(month, "Monthly Savings #2 (Pre-Settlement)", 0, 500,
                  "PRE-SETTLEMENT INCOME") >>
         \o (IF MonthOf(month) = 8 /\ YearOf(month) = 2025
             THEN << Event(month, "Monthly Savings #3 (August Only)", 0, 1200,
                           "PRE-SETTLEMENT INCOME") >>
             ELSE <<>>)
    ELSE << Event(month,
                  "Monthly Income (Post-Settlement - Mortgage Allocation + Savings)",
                  0, 8261, "MONTHLY INCOME") >>

\* lines 113-124: the recurring income of one month.
MonthlyIncomeEvents(month, settlement) ==
    IF month = start_date THEN <<>>
    ELSE IF month < settlement
    THEN << Event(month, "Monthly Savings #1 (Pre-Settlement)", 0, 5700,
                  "PRE-SETTLEMENT INCOME"),
            Event(month, "Monthly Savings #2 (Pre-Settlement)", 0, 500,
                  "PRE-SETTLEMENT INCOME") >>
         \o (IF MonthOf(month) = 8 /\ YearOf(month) = 2025
             THEN << Event(month, "Monthly Savings #3 (August Only)", 0, 1200,
                           "PRE-SETTLEMENT INCOME") >>
             ELSE <<>>)
    ELSE << Event(month,
                  "Monthly Income (Post-Settlement - Mortgage Allocation + Savings)",
                  0, 8261, "MONTHLY INCOME") >>

\* faulty variant: the first payment falls on the settlement date.
first_mortgage_date_onsettlement(settlement) == settlement

\* line 133: the first mortgage payment is due 14 days after settlement.
first_mortgage_date(settlement) == settlement + 14

\* lines 127-130
NextMonth(month) ==
    IF MonthOf(month) = 12 THEN ToOrdinal(YearOf(month) + 1, 1, 1)
    ELSE ToOrdinal(YearOf(month), MonthOf(month) + 1, 1)

\* faulty variant: every event overwrites the balance.
ApplyEvent_set(balance, event) == event.amount

\* lines 161-164
ApplyEvent(balance, event) ==
    IF event.description[1] = "Starting Balance" THEN event.amount
    ELSE balance + event.amount

RECURSIVE BalanceAfter(_, _, _)
\* the balance after the first k events of a day.
BalanceAfter(balance, events, k) ==
    IF k = 0 THEN balance
    ELSE ApplyEvent(BalanceAfter(balance, events, k - 1), events[k])

\* faulty variant: the day's events are emitted last first.
EventOrder_reversed(events) == [i \in 1..Len(events) |-> events[Len(events) + 1 - i]]

\* line 160: the order in which the loop visits a day's events.
EventOrder(events) == events

\* lines 156-179: the records of a day with events.
EventRecords(date, balance, dayEvents) ==
    LET events == EventOrder(dayEvents)
    IN  [i \in 1..Len(events) |->
          [Date |-> strftime(date),
           Day_of_Week |-> Weekday(date),
           Milestone |-> events[i].milestone,
           Description |-> IF Len(events) > 1
                           THEN <<events[i].description, i, Len(events)>>
                           ELSE <<events[i].description, 0, 0>>,
           Amount |-> events[i].amount,
           Running_Balance |-> BalanceAfter(balance, events, i)]]

\* faulty variant: a day without events emits nothing.
NoEventRecords_none(date, balance) == <<>>

\* lines 181-189: the record of a day without events.
NoEventRecords(date, balance) ==
    << [Date |-> strftime(date),
        Day_of_Week |-> Weekday(date),
        Milestone |-> "",
        Description |-> << <<"No transactions", 0>>, 0, 0 >>,
        Amount |-> 0,
        Running_Balance |-> balance] >>

\* lines 153-189: the records of one day.
DayRecords(date, balance, events) ==
    IF strftime(date) \in DOMAIN events
    THEN EventRecords(date, balance, events[strftime(date)])
    ELSE NoEventRecords(date, balance)

RECURSIVE MilestoneTotal(_, _, _)
\* df[df['Milestone'] == tag]['Amount'].sum() over the first n records.
MilestoneTotal(data, tag, n) ==
    IF n = 0 THEN 0
    ELSE MilestoneTotal(data, tag, n - 1)
            + (IF data[n].Milestone = tag THEN data[n].Amount ELSE 0)

\* faulty variant: the sign of a total is kept.
Abs_signed(x) == x

Abs(x) == IF x < 0 THEN -x ELSE x

\* faulty variant: the balance of the first record.
final_balance_first(data) == data[1].Running_Balance

\* line 200: df['Running Balance'].iloc[-1]
final_balance(data) == data[Len(data)].Running_Balance

\* lines 200-221
FinancialSummary(data) ==
    LET n == Len(data)
        total_initial_income == MilestoneTotal(data, "INCOME", n)
        total_pre_settlement_income == MilestoneTotal(data, "PRE-SETTLEMENT INCOME", n)
        total_monthly_income == MilestoneTotal(data, "MONTHLY INCOME", n)
        total_settlement_expenses == Abs(MilestoneTotal(data, "SETTLEMENT", n))
        total_post_settlement == Abs(MilestoneTotal(data, "POST-SETTLEMENT", n))
        total_moving_expenses == Abs(MilestoneTotal(data, "MOVING", n))
        total_mortgage_payments == Abs(MilestoneTotal(data, "MORTGAGE", n))
        total_income == total_initial_income + total_pre_settlement_income
                            + total_monthly_income
        total_expenses == total_settlement_expenses + total_post_settlement
                            + total_moving_expenses + total_mortgage_payments
    IN  [final_balance |-> final_balance(data),
         total_initial_income |-> total_initial_income,
         total_pre_settlement_income |-> total_pre_settlement_income,
         total_monthly_income |-> total_monthly_income,
         total_settlement_expenses |-> total_settlement_expenses,
         total_post_settlement |-> total_post_settlement,
         total_moving_expenses |-> total_moving_expenses,
         total_mortgage_payments |-> total_mortgage_payments,
         total_income |-> total_income,
         total_expenses |-> total_expenses,
         net_change |-> total_income - total_expenses]

\* create_summary_sheet, line 696 (and the printed summary, line 1079).
Status(financial_summary) ==
    IF financial_summary.final_balance >= 0 THEN "VIABLE" ELSE "REQUIRES ATTENTION"

----------------------------------------------------------------------------
(* Cash-flow engine: actions *)

LoanIdle ==
    /\ terms = NoValue
    /\ lpc = "idle"
    /\ current_loan_balance = 0
    /\ current_offset_balance = 0
    /\ period_counter = 0
    /\ schedule_data = <<>>
    /\ loan_start_date = 0
    /\ period_in_loan_year_counts = <<>>
    /\ LoanMainIdle

InitCash ==
    /\ cargs \in CashArgs
    /\ cpc = "start"
    /\ settlement_date = 0
    /\ move_out_date = 0
    /\ end_date = 0
    /\ cash_flow_events = <<>>
    /\ add_calls = <<>>
    /\ current_month = 0
    /\ mortgage_date = 0
    /\ mortgage_payment_number = 0
    /\ current_date = 0
    /\ current_balance = 0
    /\ cash_flow_data = <<>>
    /\ returned = NoValue
    /\ LoanIdle
    /\ MainIdle

\* line 23: strptime raises ValueError on a date that does not exist.
RaiseOnParse ==
    /\ cpc = "start"
    /\ ~Parses(cargs.settlement_date_str)
    /\ cpc' = "error"
    /\ returned' = [raised |-> "ValueError", line |-> 23]
    /\ UNCHANGED <<cargs, settlement_date, move_out_date, end_date, cash_flow_events,
                   add_calls, current_month, mortgage_date, mortgage_payment_number,
                   current_date, current_balance, cash_flow_data, loanVars, mainVars>>

\* lines 23-43, with replace() raising ValueError.
RaiseOnReplace ==
    /\ cpc = "start"
    /\ Parses(cargs.settlement_date_str)
    /\ ReplaceRaises(strptime(cargs.settlement_date_str))
    /\ settlement_date' = strptime(cargs.settlement_date_str)
    /\ move_out_date' = MoveOutDate(settlement_date')
    /\ cpc' = "error"
    /\ returned' = [raised |-> "ValueError",
                    line |-> ReplaceLine(strptime(cargs.settlement_date_str))]
    /\ UNCHANGED <<cargs, end_date, cash_flow_events,
                   add_calls, current_month, mortgage_date, mortgage_payment_number,
                   current_date, current_balance, cash_flow_data, loanVars, mainVars>>

\* lines 23-100: the derived dates and the one-off events.
ScheduleFixedEvents ==
    /\ cpc = "start"
    /\ Parses(cargs.settlement_date_str)
    /\ ~ReplaceRaises(strptime(cargs.settlement_date_str))
    /\ settlement_date' = strptime(cargs.settlement_date_str)
    /\ move_out_date' = MoveOutDate(settlement_date')
    /\ end_date' = EndDate(settlement_date')
    /\ current_balance' = cargs.starting_balance
    /\ LET evs == FixedEvents(cargs.starting_balance, settlement_date', move_out_date')
       IN  /\ cash_flow_events' = AddAll(cash_flow_events, evs, Len(evs))
           /\ add_calls' = add_calls \o Logged(evs)
    \* line 109
    /\ current_month' = ToOrdinal(2025, 8, 1)
    /\ cpc' = "income"
    /\ UNCHANGED <<cargs, mortgage_date, mortgage_payment_number, current_date,
                   cash_flow_data, returned, loanVars, mainVars>>

\* lines 111-130: one iteration of the monthly income loop.
ScheduleMonthlyIncome ==
    /\ cpc = "income"
    /\ current_month <= end_date
    /\ LET evs == MonthlyIncomeEvents(current_month, settlement_date)
       IN  /\ cash_flow_events' = AddAll(cash_flow_events, evs, Len(evs))
           /\ add_calls' = add_calls \o Logged(evs)
    /\ current_month' = NextMonth(current_month)
    /\ UNCHANGED <<cargs, cpc, settlement_date, move_out_date, end_date, mortgage_date,
                   mortgage_payment_number, current_date, current_balance,
                   cash_flow_data, returned, loanVars, mainVars>>

\* lines 111, 133-135: the income loop ends; the mortgage loop is set up.
EndMonthlyIncome ==
    /\ cpc = "income"
    /\ ~(current_month <= end_date)
    /\ mortgage_date' = first_mortgage_date(settlement_date)
    /\ mortgage_payment_number' = 1
    /\ cpc' = "mortgage"
    /\ UNCHANGED <<cargs, settlement_date, move_out_date, end_date, cash_flow_events,
                   add_calls, current_month, current_date, current_balance,
                   cash_flow_data, returned, loanVars, mainVars>>

\* lines 137-140: one iteration of the mortgage payment loop.
ScheduleMortgagePayment ==
    /\ cpc = "mortgage"
    /\ mortgage_date <= end_date
    /\ LET evs == << Event(mortgage_date, "Mortgage Payment #", mortgage_payment_number,
                           -2410, "MORTGAGE") >>
       IN  /\ cash_flow_events' = AddAll(cash_flow_events, evs, Len(evs))
           /\ add_calls' = add_calls \o Logged(evs)
    /\ mortgage_date' = mortgage_date + 14
    /\ mortgage_payment_number' = mortgage_payment_number + 1
    /\ UNCHANGED <<cargs, cpc, settlement_date, move_out_date, end_date, current_month,
                   current_date, current_balance, cash_flow_data, returned, loanVars, mainVars>>

\* lines 137, 145-150: the mortgage loop ends; the daily loop is set up.
EndMortgagePayments ==
    /\ cpc = "mortgage"
    /\ ~(mortgage_date <= end_date)
    /\ current_date' = analysis_start_date
    /\ current_balance' = 0
    /\ cash_flow_data' = <<>>
    /\ cpc' = "daily"
    /\ UNCHANGED <<cargs, settlement_date, move_out_date, end_date, cash_flow_events,
                   add_calls, current_month, mortgage_date, mortgage_payment_number,
                   returned, loanVars, mainVars>>

\* lines 152-191: one day of the daily loop.
EmitDay ==
    /\ cpc = "daily"
    /\ current_date <= end_date
    /\ LET rows == DayRecords(current_date, current_balance, cash_flow_events)
       IN  /\ cash_flow_data' = cash_flow_data \o rows
           /\ current_balance' = IF Len(rows) = 0 THEN current_balance
                                 ELSE rows[Len(rows)].Running_Balance
    /\ current_date' = current_date + 1
    /\ UNCHANGED <<cargs, cpc, settlement_date, move_out_date, end_date, cash_flow_events,
                   add_calls, current_month, mortgage_date, mortgage_payment_number,
                   returned, loanVars, mainVars>>

\* lines 152, 194-233: the daily loop ends; the summary is computed and returned.
ReturnAnalysis ==
    /\ cpc = "daily"
    /\ ~(current_date <= end_date)
    /\ Len(cash_flow_data) > 0
    /\ returned' = [df |-> cash_flow_data,
                    move_out_date |-> move_out_date,
                    end_date |-> end_date,
                    financial_summary |-> FinancialSummary(cash_flow_data)]
    /\ cpc' = "done"
    /\ UNCHANGED <<cargs, settlement_date, move_out_date, end_date, cash_flow_events,
                   add_calls, current_month, mortgage_date, mortgage_payment_number,
                   current_date, current_balance, cash_flow_data, loanVars, mainVars>>

\* lines 194-200: no record was emitted; the column lookup on the empty
\* DataFrame raises KeyError.
RaiseOnEmptyData ==
    /\ cpc = "daily"
    /\ ~(current_date <= end_date)
    /\ Len(cash_flow_data) = 0
    /\ returned' = [raised |-> "KeyError", line |-> 200]
    /\ cpc' = "error"
    /\ UNCHANGED <<cargs, settlement_date, move_out_date, end_date, cash_flow_events,
                   add_calls, current_month, mortgage_date, mortgage_payment_number,
                   current_date, current_balance, cash_flow_data, loanVars, mainVars>>

NextCash ==
    \/ RaiseOnParse
    \/ RaiseOnReplace
    \/ ScheduleFixedEvents
    \/ ScheduleMonthlyIncome
    \/ EndMonthlyIncome
    \/ ScheduleMortgagePayment
    \/ EndMortgagePayments
    \/ EmitDay
    \/ ReturnAnalysis
    \/ RaiseOnEmptyData

SpecCash == InitCash /\ [][NextCash]_vars

----------------------------------------------------------------------------
(* Scenario batch (__main__ of moving_plan_analysis.py): inputs *)

\* line 1025: for i in range(5)
ScenarioCount == 5

\* line 1017: the balance used when the prompt is answered with an empty line.
DefaultStartingBalance == 93000

\* line 1022
default_dates ==
    << <<1, 8, 2025>>, <<8, 8, 2025>>, <<15, 8, 2025>>, <<22, 8, 2025>>,
       <<2, 9, 2025>> >>

\* an empty line typed at a prompt.
NoInput == <<>>

\* the texts typed at the starting balance prompt, character by character.
BalanceTexts ==
    [empty |-> NoInput,
     zero |-> <<"0">>,
     grouped |-> <<"6", "0", ",", "0", "0", "0">>,
     exponent |-> <<"1", "e", "5">>,
     blank |-> <<" ", "", "\t">>,
     padded |-> <<"", ",", "\t", "6", "0", ",", "0", "0", "0", "">>,
     word |-> <<"a", "b", "c">>,
     comma |-> <<",">>]

Reversed(seq) == [i \in 1..Len(seq) |-> seq[Len(seq) + 1 - i]]

\* the answers to the five settlement date prompts, each the stripped line
\* of line 1026: a date string or an empty line.
DateAnswers ==
    [defaults |-> [i \in 1..ScenarioCount |-> NoInput],
     reversed |-> Reversed(default_dates),
     tied |-> << <<8, 8, 2025>>, <<1, 8, 2025>>, <<8, 8, 2025>>, <<1, 8, 2025>>,
                 <<15, 8, 2025>> >>,
     moved |-> << <<22, 8, 2025>>, <<1, 8, 2025>>, <<9, 9, 2025>>, <<2, 9, 2025>>,
                  <<15, 8, 2025>> >>,
     misdated |-> << <<2, 9, 2025>>, <<31, 6, 2025>>, NoInput, <<15, 13, 2025>>,
                     NoInput >>,
     monthEnd |-> << NoInput, <<31, 7, 2025>>, NoInput, NoInput, NoInput >>,
     early |-> << <<15, 5, 2025>>, NoInput, NoInput, NoInput, NoInput >>]

\* the sessions at the prompts.
BatchInputs ==
    { [starting_balance_input |-> BalanceTexts.empty, date_inputs |-> DateAnswers.defaults],
      [starting_balance_input |-> BalanceTexts.empty, date_inputs |-> DateAnswers.reversed],
      [starting_balance_input |-> BalanceTexts.grouped, date_inputs |-> DateAnswers.defaults],
      [starting_balance_input |-> BalanceTexts.grouped, date_inputs |-> DateAnswers.moved],
      [starting_balance_input |-> BalanceTexts.zero, date_inputs |-> DateAnswers.tied],
      [starting_balance_input |-> BalanceTexts.empty, date_inputs |-> DateAnswers.tied],
      [starting_balance_input |-> BalanceTexts.empty, date_inputs |-> DateAnswers.misdated],
      [starting_balance_input |-> BalanceTexts.empty, date_inputs |-> DateAnswers.monthEnd],
      [starting_balance_input |-> BalanceTexts.zero, date_inputs |-> DateAnswers.early],
      [starting_balance_input |-> BalanceTexts.exponent, date_inputs |-> DateAnswers.defaults],
      [starting_balance_input |-> BalanceTexts.blank, date_inputs |-> DateAnswers.moved],
      [starting_balance_input |-> BalanceTexts.padded, date_inputs |-> DateAnswers.tied],
      [starting_balance_input |-> BalanceTexts.word, date_inputs |-> DateAnswers.defaults],
      [starting_balance_input |-> BalanceTexts.comma, date_inputs |-> DateAnswers.defaults] }

----------------------------------------------------------------------------
(* Scenario batch: pure parts *)

\* line 1017: starting_balance_input.replace(',', '')
RemoveCommas(text) == SelectSeq(text, LAMBDA c : c # ",")

\* the decimal digits float() and int() read, those of value 0 first: the
\* ASCII digits and the digits of the other scripts that a string can hold
\* here (Extended Arabic-Indic, NKo, Bengali, Gujarati, Tamil, Kannada,
\* Malayalam, Lao, Myanmar Shan, Khmer, New Tai Lue, Tai Tham, Sundanese,
\* Saurashtra, Javanese, Myanmar Tai Laing, Meetei Mayek).
DecimalDigits ==
    << {"0", "۰", "߀", "০", "૦", "௦", "೦", "෦", "໐", "႐", "០", "᧐", "᪀", "᪐", "᮰", "꣐", "꧐", "꧰", "꯰"},
       {"1", "۱", "߁", "১", "૧", "௧", "೧", "෧", "໑", "႑", "១", "᧑", "᪁", "᪑", "᮱", "꣑", "꧑", "꧱", "꯱"},
       {"2", "۲", "߂", "২", "૨", "௨", "೨", "෨", "໒", "႒", "២", "᧒", "᪂", "᪒", "᮲", "꣒", "꧒", "꧲", "꯲"},
       {"3", "۳", "߃", "৩", "૩", "௩", "೩", "෩", "໓", "႓", "៣", "᧓", "᪃", "᪓", "᮳", "꣓", "꧓", "꧳", "꯳"},
       {"4", "۴", "߄", "৪", "૪", "௪", "೪", "෪", "໔", "႔", "៤", "᧔", "᪄", "᪔", "᮴", "꣔", "꧔", "꧴", "꯴"},
       {"5", "۵", "߅", "৫", "૫", "௫", "೫", "෫", "໕", "႕", "៥", "᧕", "᪅", "᪕", "᮵", "꣕", "꧕", "꧵", "꯵"},
       {"6", "۶", "߆", "৬", "૬", "௬", "೬", "෬", "໖", "႖", "៦", "᧖", "᪆", "᪖", "᮶", "꣖", "꧖", "꧶", "꯶"},
       {"7", "۷", "߇", "৭", "૭", "௭", "೭", "෭", "໗", "႗", "៧", "᧗", "᪇", "᪗", "᮷", "꣗", "꧗", "꧷", "꯷"},
       {"8", "۸", "߈", "৮", "૮", "௮", "೮", "෮", "໘", "႘", "៨", "᧘", "᪈", "᪘", "᮸", "꣘", "꧘", "꧸", "꯸"},
       {"9", "۹", "߉", "৯", "૯", "௯", "೯", "෯", "໙", "႙", "៩", "᧙", "᪉", "᪙", "᮹", "꣙", "꧙", "꧹", "꯹"} >>

Digits == UNION {DecimalDigits[i] : i \in 1..10}

DigitValue(c) == (CHOOSE i \in 1..10 : c \in DecimalDigits[i]) - 1

LowerCase ==
    <<"a", "b", "c", "d", "e", "f", "g", "h", "i", "j", "k", "l", "m",
      "n", "o", "p", "q", "r", "s", "t", "u", "v", "w", "x", "y", "z">>

UpperCase ==
    <<"A", "B", "C", "D", "E", "F", "G", "H", "I", "J", "K", "L", "M",
      "N", "O", "P", "Q", "R", "S", "T", "U", "V", "W", "X", "Y", "Z">>

\* the position of a letter in the alphabet, 0 for any other character.
LetterIndex(c) ==
    IF \E i \in 1..26 : c \in {LowerCase[i], UpperCase[i]}
    THEN CHOOSE i \in 1..26 : c \in {LowerCase[i], UpperCase[i]}
    ELSE 0

\* the text in lower case.
LowerText(text) ==
    [i \in 1..Len(text) |->
        IF LetterIndex(text[i]) = 0 THEN text[i] ELSE LowerCase[LetterIndex(text[i])]]

\* the information separators U+001C to U+001F: whitespace for str.strip(),
\* not for float() and int().
Separators == {"", "", "", ""}

\* the characters str.strip() removes (str.isspace): the blank, the tab, the
\* line feed, the carriage return, the form feed, the vertical tab U+000B,
\* the four separators, the next line U+0085, the no-break space U+00A0 and
\* the Ogham space mark U+1680.  The other spaces of Unicode (U+2000 to
\* U+200A, U+2028, U+2029, U+202F, U+205F, U+3000) are not characters of a
\* string here.
Whitespace ==
    {" ", "\t", "\n", "\r", "\f", "", "", " ", " "} \cup Separators

\* the characters float() and int() skip at both ends of their argument.
NumberSpace == Whitespace \ Separators

RECURSIVE DropLeading(_, _)
\* the text without its leading characters of the set.
DropLeading(text, chars) ==
    IF text # <<>> /\ text[1] \in chars THEN DropLeading(Tail(text), chars) ELSE text

\* str.lstrip(): the text without its leading whitespace.
lstrip(text) == DropLeading(text, Whitespace)

\* str.strip(), applied to every typed line (lines 1016, 1026; lines 202-226
\* of calc_loan_repayment.py).
strip(text) == Reversed(lstrip(Reversed(lstrip(text))))

\* the argument of float() or int() without the space these skip at its ends.
NumberText(text) ==
    Reversed(DropLeading(Reversed(DropLeading(text, NumberSpace)), NumberSpace))

\* the text after its sign, if it has one.
Unsigned(text) ==
    IF text # <<>> /\ text[1] \in {"+", "-"} THEN Tail(text) ELSE text

Sign(text) == IF text # <<>> /\ text[1] = "-" THEN -1 ELSE 1

\* digits, single underscores allowed between two of them.
IsDigitPart(text) ==
    /\ text # <<>>
    /\ \A i \in 1..Len(text) : text[i] \in Digits \cup {"_"}
    /\ text[1] \in Digits
    /\ text[Len(text)] \in Digits
    /\ \A i \in 1..(Len(text) - 1) : ~(text[i] = "_" /\ text[i + 1] = "_")

\* the position of the first character of the text that is in chars, or 0.
FirstOf(text, chars) ==
    IF \E i \in 1..Len(text) : text[i] \in chars
    THEN CHOOSE i \in 1..Len(text) :
            text[i] \in chars /\ \A j \in 1..(i - 1) : text[j] \notin chars
    ELSE 0

HasExponent(text) == FirstOf(text, {"e", "E"}) # 0

\* the part of a number before its exponent mark.
Mantissa(text) ==
    IF HasExponent(text) THEN SubSeq(text, 1, FirstOf(text, {"e", "E"}) - 1) ELSE text

\* the part of a number after its exponent mark.
Exponent(text) ==
    IF HasExponent(text) THEN SubSeq(text, FirstOf(text, {"e", "E"}) + 1, Len(text))
    ELSE <<>>

\* the part of a mantissa before its point.
WholePart(text) ==
    IF FirstOf(text, {"."}) # 0 THEN SubSeq(text, 1, FirstOf(text, {"."}) - 1) ELSE text

\* the part of a mantissa after its point.
FractionPart(text) ==
    IF FirstOf(text, {"."}) # 0 THEN SubSeq(text, FirstOf(text, {"."}) + 1, Len(text))
    ELSE <<>>

\* digits with a point before, between or after them.
IsPointFloat(text) ==
    /\ WholePart(text) # <<>> \/ FractionPart(text) # <<>>
    /\ WholePart(text) = <<>> \/ IsDigitPart(WholePart(text))
    /\ FractionPart(text) = <<>> \/ IsDigitPart(FractionPart(text))

\* the names float() accepts in any case, with or without a sign.
SpecialFloats ==
    { <<"i", "n", "f">>, <<"i", "n", "f", "i", "n", "i", "t", "y">>, <<"n", "a", "n">> }

\* float() accepts the text: space at the ends, a sign, then inf, infinity or
\* nan (ASCII letters of either case), or a decimal number with an optional
\* exponent.
IsFloatText(text) ==
    LET number == Unsigned(NumberText(text))
    IN  \/ LowerText(number) \in SpecialFloats
        \/ /\ IsPointFloat(Mantissa(number))
           /\ HasExponent(number) => IsDigitPart(Unsigned(Exponent(number)))

\* line 1017: float() raises ValueError on a text that is not a number.
FloatRaises(text) == ~IsFloatText(text)

RECURSIVE DigitsValue(_, _)
\* the number written by the first n digits of a text of digits.
DigitsValue(text, n) ==
    IF n = 0 THEN 0 ELSE DigitsValue(text, n - 1) * 10 + DigitValue(text[n])

\* the digits of a digit part, its underscores dropped.
DigitsOnly(text) == SelectSeq(text, LAMBDA c : c \in Digits)

RECURSIVE Pow10(_)
Pow10(n) == IF n = 0 THEN 1 ELSE 10 * Pow10(n - 1)

RECURSIVE Decimal(_, _)
\* the number mantissa x 10^exponent: a whole number is that integer, any
\* other is kept as its decimal mantissa (not a multiple of 10) and exponent.
Decimal(mantissa, exponent) ==
    IF exponent >= 0 THEN mantissa * Pow10(exponent)
    ELSE IF mantissa % 10 = 0 THEN Decimal(mantissa \div 10, exponent + 1)
    ELSE [mantissa |-> mantissa, exponent |-> exponent]

\* float() of a text it accepts, times 10^scale: inf, -inf or nan, or the
\* decimal value written (the rounding to a binary float is left out).
ScaledFloatOf(text, scale) ==
    LET number == Unsigned(NumberText(text))
        sign == Sign(NumberText(text))
        whole == DigitsOnly(WholePart(Mantissa(number)))
        fraction == DigitsOnly(FractionPart(Mantissa(number)))
        exponent == DigitsOnly(Unsigned(Exponent(number)))
        shift == Sign(Exponent(number)) * DigitsValue(exponent, Len(exponent))
                    - Len(fraction)
        digits == DigitsValue(whole \o fraction, Len(whole \o fraction))
    IN  IF LowerText(number) = <<"n", "a", "n">> THEN [float |-> "nan"]
        ELSE IF LowerText(number) \in SpecialFloats
        THEN [float |-> IF sign = -1 THEN "-inf" ELSE "inf"]
        ELSE Decimal(sign * digits, shift + scale)

\* line 1017: float() of a text it accepts.
FloatOf(text) == ScaledFloatOf(text, 0)

\* line 215 of calc_loan_repayment.py: int() raises ValueError on a text that
\* is not a whole number (space at the ends, a sign, digits).
IntRaises(text) == ~IsDigitPart(Unsigned(NumberText(text)))

\* line 215 of calc_loan_repayment.py: int() of a text it accepts.
IntOf(text) ==
    Sign(NumberText(text)) * DigitsValue(DigitsOnly(Unsigned(NumberText(text))),
                                         Len(DigitsOnly(Unsigned(NumberText(text)))))

\* lines 1027-1035: the date kept for prompt i.
ValidatedDate(date_input, i) ==
    LET entered == IF date_input # NoInput THEN date_input ELSE default_dates[i]
    IN  IF Parses(entered) THEN entered ELSE default_dates[i]

\* faulty variant: the events of the previous call are still in the dictionary.
empty_cash_flow_events_kept(previous) == previous

\* line 48: cash_flow_events = {} is a fresh local of every call.
empty_cash_flow_events(previous) == <<>>

\* lines 235-240: the weekday and the "%d/%m" part of the plan name.
generate_plan_name(settlement_date_str) ==
    LET date == strptime(settlement_date_str)
    IN  <<Weekday(date), strftime(date)[1], strftime(date)[2]>>

\* line 1054: sorted() places an entry after the entries that are not later
\* than it (the sort is stable).
InsertByDate(ordered, scenario) ==
    LET key(x) == strptime(x.settlement_date)
        k == Cardinality({j \in 1..Len(ordered) : key(ordered[j]) <= key(scenario)})
    IN  SubSeq(ordered, 1, k) \o <<scenario>> \o SubSeq(ordered, k + 1, Len(ordered))

RECURSIVE sorted_by_date(_, _)
\* line 1054: sorted(scenarios_data, key = the settlement date), first n entries.
sorted_by_date(data, n) ==
    IF n = 0 THEN <<>> ELSE InsertByDate(sorted_by_date(data, n - 1), data[n])

\* lines 1063-1064, 249-250: the calls of create_scenario_sheet, in order.
ScenarioSheets(data) ==
    LET ordered == sorted_by_date(data, Len(data))
    IN  [i \in 1..Len(ordered) |->
          [scenario_num |-> i,
           settlement_date |-> ordered[i].settlement_date,
           sheet_name |-> <<ordered[i].settlement_date[1],
                            ordered[i].settlement_date[2]>>,
           final_balance |-> ordered[i].financial_summary.final_balance]]

\* lines 423-431: the keys of calendar_data, one for every month that has a
\* record, each written as 12 * year + month.
calendar_months(rows) ==
    {12 * rows[k].Date[3] + rows[k].Date[2] : k \in 1..Len(rows)}

\* line 504: len(calendar.monthcalendar(year, month)), the weeks from Monday
\* to Sunday that hold a day of the month.
monthcalendar_weeks(month_key) ==
    LET year == (month_key - 1) \div 12
        month == month_key - 12 * year
    IN  (Weekday(ToOrdinal(year, month, 1)) + DaysInMonth(year, month) + 6) \div 7

RECURSIVE calendar_rows(_)
\* lines 474-599: the rows the calendars of a set of months take: for each a
\* title, a legend, the day headers, one row per week and two rows of space.
calendar_rows(months) ==
    IF months = {} THEN 0
    ELSE LET month_key == CHOOSE k \in months : TRUE
         IN  5 + monthcalendar_weeks(month_key) + calendar_rows(months \ {month_key})

\* lines 303-464, 467: calendar_row at the title of a month; the status line
\* is row 27, the first calendar begins at row 32 and the months follow in
\* order.
month_row(rows, month_key) ==
    32 + calendar_rows({k \in calendar_months(rows) : k < month_key})

\* lines 604-630: the row of the separator line under the calendars, after
\* the heading and the four items of the colour legend.
separator_row(rows) == 32 + calendar_rows(calendar_months(rows)) + 6

\* lines 300, 419, 474, 480, 630: the rows in which the call merges cells:
\* A1:F1, B27:F27, A:G of the title and the legend of every month and A:F of
\* the separator. In each of them the cells C to F are merged cells that are
\* not the first cell of their range.
merged_rows(rows) ==
    {1, 27, separator_row(rows)}
        \cup UNION {{month_row(rows, k), month_row(rows, k) + 1} :
                        k \in calendar_months(rows)}

\* lines 254, 487, 517, 569, 654: the rows in which the call assigns values
\* to the cells C to F: the table to_excel writes from row 80 (the header and
\* one row per record), the day headers and the weeks of every calendar and
\* the month legend two rows under the separator.
value_rows(rows) ==
    (80..(80 + Len(rows)))
        \cup UNION {(month_row(rows, k) + 2)..(month_row(rows, k) + 2
                                                  + monthcalendar_weeks(k)) :
                        k \in calendar_months(rows)}
        \cup {separator_row(rows) + 2}

\* lines 250-254: to_excel writes into the sheet of that name when an earlier
\* call has made one (the name holds the day and the month only); assigning a
\* value to a merged cell that is not the first of its range raises
\* AttributeError. ordered is scenarios_data_sorted, i the call.
sheet_raises(ordered, i) ==
    \E j \in 1..(i - 1) :
        /\ ordered[j].settlement_date[1] = ordered[i].settlement_date[1]
        /\ ordered[j].settlement_date[2] = ordered[i].settlement_date[2]
        /\ merged_rows(ordered[j].analysis_df) \cap value_rows(ordered[i].analysis_df)
              # {}

\* lines 1063-1064: the calls of create_scenario_sheet that raise.
raising_sheets(data) ==
    LET ordered == sorted_by_date(data, Len(data))
    IN  {i \in 1..Len(ordered) : sheet_raises(ordered, i)}

\* lines 682-697: the rows of the summary comparison sheet.
SummaryData(data) ==
    [i \in 1..Len(data) |->
       [Scenario |-> i,
        Settlement_Date |-> data[i].settlement_date,
        Day_of_Week |-> Weekday(strptime(data[i].settlement_date)),
        Plan_Name |-> generate_plan_name(data[i].settlement_date),
        Final_Balance |-> data[i].financial_summary.final_balance,
        Total_Income |-> data[i].financial_summary.total_income,
        Total_Expenses |-> data[i].financial_summary.total_expenses,
        Net_Change |-> data[i].financial_summary.net_change,
        Status |-> Status(data[i].financial_summary)]]

\* line 805: create_chart_sheet adds the column 'Date_dt', the Date column
\* parsed by pd.to_datetime, to the unformatted frame of a scenario, in place.
with_Date_dt(rows) ==
    [k \in 1..Len(rows) |->
        [f \in DOMAIN rows[k] \cup {"Date_dt"} |->
            IF f = "Date_dt" THEN strptime(rows[k].Date) ELSE rows[k][f]]]

\* lines 800-805: the loop over scenarios_data, whose tuples hold the frames
\* the engine returned.
charted(data) ==
    [i \in 1..Len(data) |-> [data[i] EXCEPT !.analysis_df = with_Date_dt(@)]]

\* lines 1076-1086: the printed scenario summary.
PrintedSummary(data) ==
    [i \in 1..Len(data) |->
       [Scenario |-> i,
        Plan_Name |-> generate_plan_name(data[i].settlement_date),
        Settlement_Date |-> data[i].settlement_date,
        Move_Out_Date |-> strftime(data[i].move_out_date),
        Final_Balance |-> data[i].financial_summary.final_balance,
        Status |-> Status(data[i].financial_summary)]]

RECURSIVE best_scenario_last(_, _)
\* faulty variant: a later scenario with an equal balance replaces the best.
best_scenario_last(data, n) ==
    IF n = 1 THEN data[1]
    ELSE LET best == best_scenario_last(data, n - 1)
         IN  IF data[n].financial_summary.final_balance
                    >= best.financial_summary.final_balance
             THEN data[n] ELSE best

RECURSIVE best_scenario(_, _)
\* line 1089: max(scenarios_data, key = final balance) over the first n entries.
best_scenario(data, n) ==
    IF n = 1 THEN data[1]
    ELSE LET best == best_scenario(data, n - 1)
         IN  IF data[n].financial_summary.final_balance
                    > best.financial_summary.final_balance
             THEN data[n] ELSE best

RECURSIVE worst_scenario(_, _)
\* line 1090: min(scenarios_data, key = final balance) over the first n entries.
worst_scenario(data, n) ==
    IF n = 1 THEN data[1]
    ELSE LET worst == worst_scenario(data, n - 1)
         IN  IF data[n].financial_summary.final_balance
                    < worst.financial_summary.final_balance
             THEN data[n] ELSE worst

\* lines 1092-1093: list.index(), 0-based.
index(data, scenario) ==
    (CHOOSE i \in 1..Len(data) :
        /\ data[i] = scenario
        /\ \A j \in 1..(i - 1) : data[j] # scenario) - 1

\* lines 1099-1103
Viability(data) ==
    IF \A i \in 1..Len(data) : data[i].financial_summary.final_balance >= 0
    THEN [all_viable |-> TRUE]
    ELSE [all_viable |-> FALSE,
          viable_count |->
              Cardinality({i \in 1..Len(data) :
                              data[i].financial_summary.final_balance >= 0})]

----------------------------------------------------------------------------
(* Scenario batch: actions *)

InitMain ==
    /\ mpc = "balance"
    /\ inputs \in BatchInputs
    /\ starting_balance = 0
    /\ settlement_dates = <<>>
    /\ scenarios_data = <<>>
    /\ report = NoValue
    /\ returned = NoValue
    /\ CashIdle
    /\ LoanIdle

\* lines 1016-1017: the typed line is stripped; an empty rest gives the default.
ReadStartingBalance ==
    /\ mpc = "balance"
    /\ LET text == strip(inputs.starting_balance_input)
       IN  IF text # NoInput
           THEN /\ ~FloatRaises(RemoveCommas(text))
                /\ starting_balance' = FloatOf(RemoveCommas(text))
           ELSE starting_balance' = DefaultStartingBalance
    /\ mpc' = "dates"
    /\ UNCHANGED <<inputs, settlement_dates, scenarios_data, report, returned,
                   cashVars, loanVars>>

\* lines 1017, 1037-1039: float() raises and the program exits.
RejectStartingBalance ==
    /\ mpc = "balance"
    /\ strip(inputs.starting_balance_input) # NoInput
    /\ FloatRaises(RemoveCommas(strip(inputs.starting_balance_input)))
    /\ mpc' = "exit"
    /\ UNCHANGED <<inputs, starting_balance, settlement_dates, scenarios_data, report,
                   returned, cashVars, loanVars>>

\* lines 1025-1035: one iteration of the prompt loop.
ReadSettlementDate ==
    /\ mpc = "dates"
    /\ LET i == Len(settlement_dates) + 1
       IN  /\ settlement_dates' =
                 Append(settlement_dates, ValidatedDate(inputs.date_inputs[i], i))
           /\ mpc' = IF i = ScenarioCount THEN "calc" ELSE "dates"
    /\ UNCHANGED <<inputs, starting_balance, scenarios_data, report, returned,
                   cashVars, loanVars>>

\* lines 1046-1049, 5-48: the engine is called for the next settlement date;
\* its locals are those of a new call.
CallEngine ==
    /\ mpc = "calc"
    /\ Len(scenarios_data) < Len(settlement_dates)
    /\ cargs' = [starting_balance |-> starting_balance,
                 settlement_date_str |-> settlement_dates[Len(scenarios_data) + 1]]
    /\ cpc' = "start"
    /\ settlement_date' = 0
    /\ move_out_date' = 0
    /\ end_date' = 0
    /\ cash_flow_events' = empty_cash_flow_events(cash_flow_events)
    /\ add_calls' = <<>>
    /\ current_month' = 0
    /\ mortgage_date' = 0
    /\ mortgage_payment_number' = 0
    /\ current_date' = 0
    /\ current_balance' = 0
    /\ cash_flow_data' = <<>>
    /\ returned' = NoValue
    /\ mpc' = "running"
    /\ UNCHANGED <<inputs, starting_balance, settlement_dates, scenarios_data, report,
                   loanVars>>

\* lines 1047-1050: the call returned; its result is appended.
CollectScenario ==
    /\ mpc = "running"
    /\ cpc = "done"
    /\ scenarios_data' =
          Append(scenarios_data,
                 [settlement_date |-> cargs.settlement_date_str,
                  analysis_df |-> returned.df,
                  move_out_date |-> returned.move_out_date,
                  end_date |-> returned.end_date,
                  financial_summary |-> returned.financial_summary])
    /\ mpc' = "calc"
    /\ UNCHANGED <<inputs, starting_balance, settlement_dates, report, returned,
                   cashVars, loanVars>>

\* lines 1105-1108: the call raised; the handler around the whole batch
\* prints the error and the program ends.
AbortBatch ==
    /\ mpc = "running"
    /\ cpc = "error"
    /\ report' = [error |-> returned.raised]
    /\ mpc' = "aborted"
    /\ UNCHANGED <<inputs, starting_balance, settlement_dates, scenarios_data, returned,
                   cashVars, loanVars>>

\* lines 1063-1064, 254, 1105-1108: a scenario sheet is written over the
\* sheet an earlier scenario of the batch made under the same name and hits
\* one of its merged cells; the handler around the whole batch prints the
\* error, and neither the summary sheet nor the chart nor the printed summary
\* follows.
AbortReport ==
    /\ mpc = "calc"
    /\ Len(scenarios_data) = Len(settlement_dates)
    /\ raising_sheets(scenarios_data) # {}
    /\ LET first == CHOOSE i \in raising_sheets(scenarios_data) :
                        \A j \in raising_sheets(scenarios_data) : i <= j
       IN  report' = [error |-> "AttributeError",
                      sheets |-> SubSeq(ScenarioSheets(scenarios_data), 1, first - 1)]
    /\ mpc' = "aborted"
    /\ UNCHANGED <<inputs, starting_balance, settlement_dates, scenarios_data, returned,
                   cashVars, loanVars>>

\* lines 1053-1103: the sheets are written and the summary is printed.
Report ==
    /\ mpc = "calc"
    /\ Len(scenarios_data) = Len(settlement_dates)
    /\ raising_sheets(scenarios_data) = {}
    /\ LET n == Len(scenarios_data)
           best == best_scenario(scenarios_data, n)
           worst == worst_scenario(scenarios_data, n)
       IN  report' = [sheets |-> ScenarioSheets(scenarios_data),
                      summary_data |-> SummaryData(scenarios_data),
                      printed |-> PrintedSummary(scenarios_data),
                      best_idx |-> index(scenarios_data, best) + 1,
                      best_date |-> best.settlement_date,
                      best_balance |-> best.financial_summary.final_balance,
                      worst_idx |-> index(scenarios_data, worst) + 1,
                      worst_date |-> worst.settlement_date,
                      worst_balance |-> worst.financial_summary.final_balance,
                      viability |-> Viability(scenarios_data)]
    \* line 1070: create_chart_sheet
    /\ scenarios_data' = charted(scenarios_data)
    /\ mpc' = "done"
    /\ UNCHANGED <<inputs, starting_balance, settlement_dates, returned,
                   cashVars, loanVars>>

NextMain ==
    \/ ReadStartingBalance
    \/ RejectStartingBalance
    \/ ReadSettlementDate
    \/ CallEngine
    \/ CollectScenario
    \/ AbortBatch
    \/ AbortReport
    \/ Report

\* the batch with the engine it calls; the dates it passes were parsed at
\* lines 1030-1035, so line 23 does not raise here.
NextBatch ==
    \/ NextMain
    \/ RaiseOnReplace
    \/ ScheduleFixedEvents
    \/ ScheduleMonthlyIncome
    \/ EndMonthlyIncome
    \/ ScheduleMortgagePayment
    \/ EndMortgagePayments
    \/ EmitDay
    \/ ReturnAnalysis
    \/ RaiseOnEmptyData

SpecBatch == InitMain /\ [][NextBatch]_vars

----------------------------------------------------------------------------
(* Loan calculator (__main__ of calc_loan_repayment.py): inputs *)

\* the lines typed at the first seven prompts, character by character; the
\* answer to the eighth is the stripped line: a date string or an empty line.
LoanAnswer(loan, type, payment, duration, interest, offset, growth, start) ==
    [loan_amount_input |-> loan,
     payment_type_input |-> type,
     payment_amount_input |-> payment,
     duration_input |-> duration,
     interest_input |-> interest,
     offset_start_input |-> offset,
     offset_growth_input |-> growth,
     loan_start_input |-> start]

\* In these sessions the loan amount and the interest rate are typed, and the
\* offset growth is typed unless the payments are monthly, so that the
\* schedule is computed in whole numbers: the defaults 759476.79, 6.24% and
\* 3000 / (26 / 12) are not whole.
LoanSessions ==
    { \* defaults for the type, payment, duration, offset and start date
      LoanAnswer(<<"7", ",", "5", "0", "0">>, NoInput, NoInput, NoInput, <<"0">>,
                 NoInput, <<"0">>, NoInput),
      \* the safety cap ends the run with the loan not paid off
      LoanAnswer(<<"3", "0">>, <<"m", "o", "n", "t", "h", "l", "y">>, <<"1">>, <<"1">>,
                 <<"0", "%">>, <<"0">>, <<"0">>, <<29, 2, 2024>>),
      LoanAnswer(<<"1", "2", "0">>, <<"W", "E", "E", "K", "L", "Y">>, <<"1">>, <<"1">>,
                 <<"0">>, <<"0">>, <<"1", "3">>, NoInput),
      \* interest at a monthly rate of 100%
      LoanAnswer(<<"6">>, <<"M", "o", "n", "t", "h", "l", "y">>, <<"8">>, <<"1">>,
                 <<"4", "0", "9", "5", "0", "0", "%">>, <<"0">>, <<"0">>, NoInput),
      \* one period only; lines typed with whitespace around or instead of
      \* the answer
      LoanAnswer(<<" ", "1">>, <<"", "M", "o", "n", "t", "h", "l", "y", "">>,
                 <<"1", "">>, <<" ", "1", "\t">>, <<"0", " ", "%">>, <<"">>,
                 <<"\t", "">>, NoInput),
      \* a final payment smaller than the scheduled one
      LoanAnswer(<<"1", "2">>, <<"f", "o", "r", "t", "n", "i", "g", "h", "t", "l", "y">>,
                 <<"5">>, NoInput, <<"0">>, <<"0">>, <<"1", "3">>, <<31, 12, 2025>>),
      \* an amount typed with an exponent and an Extended Arabic-Indic digit
      LoanAnswer(<<"۱", "e", "1">>, <<"M", "o", "n", "t", "h", "l", "y">>, <<"4">>,
                 <<"+", "1">>, <<"0">>, <<"0">>, <<"0">>, NoInput),
      \* nothing to pay: the schedule is empty
      LoanAnswer(<<"0">>, NoInput, NoInput, NoInput, <<"0">>, NoInput, <<"0">>, NoInput),
      \* a start date that does not exist
      LoanAnswer(<<"3", "0">>, <<"m", "o", "n", "t", "h", "l", "y">>, <<"1">>, <<"1">>,
                 <<"0">>, <<"0">>, <<"0">>, <<31, 6, 2025>>),
      \* texts that are not numbers, an unknown payment type
      LoanAnswer(<<"a", "b", "c">>, <<"y", "e", "a", "r", "l", "y">>, NoInput, NoInput,
                 <<"0">>, NoInput, <<"0">>, NoInput),
      LoanAnswer(<<"3", "0">>, <<"y", "e", "a", "r", "l", "y">>, <<"a", "b", "c">>, NoInput,
                 <<"0">>, NoInput, <<"0">>, NoInput),
      LoanAnswer(<<"3", "0">>, <<"m", "o", "n", "t", "h", "l", "y">>, <<"1">>,
                 <<"1", ".", "5">>, <<"0">>, <<"0">>, <<"0">>, NoInput),
      LoanAnswer(<<"3", "0">>, NoInput, <<"1">>, <<"1">>, <<"a", "b", "c", "%">>,
                 <<"0">>, <<"0">>, NoInput) }

----------------------------------------------------------------------------
(* Loan calculator: pure parts *)

\* line 207: the three accepted payment types, spelled out.
Spelling ==
    [Weekly |-> <<"W", "e", "e", "k", "l", "y">>,
     Fortnightly |-> <<"F", "o", "r", "t", "n", "i", "g", "h", "t", "l", "y">>,
     Monthly |-> <<"M", "o", "n", "t", "h", "l", "y">>]

\* line 206: text.capitalize() is the name.  capitalize() gives the capital
\* for the first character and the small letter for every other one; a
\* letter of the three names comes from that letter only, small or capital
\* (the Kelvin sign U+212A, the one other character that gives k, is not a
\* character of a string here), and no character gives two letters of a name.
CapitalizesTo(text, name) ==
    /\ Len(text) = Len(name)
    /\ \A i \in 1..Len(name) :
          /\ LetterIndex(text[i]) # 0
          /\ LetterIndex(text[i]) = LetterIndex(name[i])

\* line 207: payment_type is one of the three names.
TypedPaymentTypeValid(text) ==
    \/ strip(text) = NoInput
    \/ \E name \in DOMAIN Spelling : CapitalizesTo(strip(text), Spelling[name])

\* lines 205-206: the payment type of an answer: the default on an empty
\* line, or the name the stripped line capitalizes to; a line that gives
\* none of the three names is kept as typed (lines 207-209 only compare it
\* with the names and exit).
TypedPaymentType(text) ==
    IF strip(text) = NoInput THEN "Fortnightly"
    ELSE IF TypedPaymentTypeValid(text)
    THEN CHOOSE name \in DOMAIN Spelling : CapitalizesTo(strip(text), Spelling[name])
    ELSE [unaccepted |-> strip(text)]

\* line 218: interest_input.replace('%', '')
RemovePercent(text) == SelectSeq(text, LAMBDA c : c # "%")

\* lines 203, 212, 221, 224: float(text.replace(',', '')) raises ValueError.
AmountRaises(text) ==
    strip(text) # NoInput /\ FloatRaises(RemoveCommas(strip(text)))

\* lines 203, 212, 221, 224: the amount of an answer, or the default.
AmountOf(text, default) ==
    IF strip(text) = NoInput THEN default
    ELSE FloatOf(RemoveCommas(strip(text)))

\* line 215: int(text) raises ValueError.
DurationRaises(text) == strip(text) # NoInput /\ IntRaises(strip(text))

\* line 218: float(text.replace('%', '')) raises ValueError.
InterestRaises(text) ==
    strip(text) # NoInput /\ FloatRaises(RemovePercent(strip(text)))

\* line 218: the typed percentage, or the default 6.24, divided by 100.
InterestOf(text) ==
    IF strip(text) = NoInput THEN Decimal(624, -4)
    ELSE ScaledFloatOf(RemovePercent(strip(text)), -2)

\* lines 201-231: the first conversion that fails, in the order of the
\* prompts, is the loan amount's (line 203, before the payment type is looked
\* at) ...
LoanAmountRaises(a) == AmountRaises(a.loan_amount_input)

\* ... or one after the payment type was accepted.
LaterAnswerRaises(a) ==
    \/ AmountRaises(a.payment_amount_input)
    \/ DurationRaises(a.duration_input)
    \/ InterestRaises(a.interest_input)
    \/ AmountRaises(a.offset_start_input)
    \/ AmountRaises(a.offset_growth_input)

\* line 215: int(text), or the default.
DurationOf(text) == IF strip(text) = NoInput THEN 30 ELSE IntOf(strip(text))

\* lines 201-227: the arguments of the call of line 235.
ParsedTerms(a) ==
    [loan_amount |-> AmountOf(a.loan_amount_input, Decimal(75947679, -2)),
     payment_type |-> TypedPaymentType(a.payment_type_input),
     payment_amount |-> AmountOf(a.payment_amount_input, 2410),
     duration_years |-> DurationOf(a.duration_input),
     annual_interest_rate |-> InterestOf(a.interest_input),
     offset_start_balance |-> AmountOf(a.offset_start_input, 20000),
     offset_growth_per_month |-> AmountOf(a.offset_growth_input, 3000),
     loan_start_date_str |-> IF a.loan_start_input = NoInput THEN default_loan_start
                             ELSE a.loan_start_input]

\* faulty variant: the remaining term is read from the last record.
payoff_time_last(schedule) == schedule[Len(schedule)].Remaining_Term

\* line 256: unformatted_df['Remaining Term (Years & Months)'].iloc[0]
payoff_time(schedule) == schedule[1].Remaining_Term

RECURSIVE total_amount_paid(_, _)
\* line 255: unformatted_df[f"{payment_type} Payment"].sum(), first n records.
total_amount_paid(schedule, n) ==
    IF n = 0 THEN 0 ELSE total_amount_paid(schedule, n - 1) + schedule[n].row.Payment

----------------------------------------------------------------------------
(* Loan calculator: actions *)

InitLoanMain ==
    /\ lmpc = "prompts"
    /\ answers \in LoanSessions
    /\ loan_summary = NoValue
    /\ first_returned = NoValue
    /\ terms = NoValue
    /\ lpc = "idle"
    /\ current_loan_balance = 0
    /\ current_offset_balance = 0
    /\ period_counter = 0
    /\ schedule_data = <<>>
    /\ loan_start_date = 0
    /\ period_in_loan_year_counts = <<>>
    /\ returned = NoValue
    /\ CashIdle
    /\ MainIdle

\* lines 229-231: a conversion raised ValueError; the program exits.
RejectAnswers ==
    /\ lmpc = "prompts"
    /\ \/ LoanAmountRaises(answers)
       \/ /\ TypedPaymentTypeValid(answers.payment_type_input)
          /\ LaterAnswerRaises(answers)
    /\ lmpc' = "exit"
    /\ loan_summary' = [exit |-> "Invalid input"]
    /\ UNCHANGED <<answers, first_returned, terms, lpc, current_loan_balance, current_offset_balance,
                   period_counter, schedule_data, loan_start_date,
                   period_in_loan_year_counts, returned, cashVars, mainVars>>

\* lines 207-209: the payment type is none of the three; the program exits.
RejectTypedPaymentType ==
    /\ lmpc = "prompts"
    /\ ~LoanAmountRaises(answers)
    /\ ~TypedPaymentTypeValid(answers.payment_type_input)
    /\ lmpc' = "exit"
    /\ loan_summary' = [exit |-> "Invalid payment type"]
    /\ UNCHANGED <<answers, first_returned, terms, lpc, current_loan_balance, current_offset_balance,
                   period_counter, schedule_data, loan_start_date,
                   period_in_loan_year_counts, returned, cashVars, mainVars>>

\* lines 201-244: every answer is converted and calculate_mortgage_schedule
\* is called.
CallSchedule ==
    /\ lmpc = "prompts"
    /\ ~LoanAmountRaises(answers)
    /\ TypedPaymentTypeValid(answers.payment_type_input)
    /\ ~LaterAnswerRaises(answers)
    /\ terms' = ParsedTerms(answers)
    /\ lpc' = "start"
    /\ lmpc' = "calling"
    /\ UNCHANGED <<answers, first_returned, loan_summary, current_loan_balance,
                   current_offset_balance, period_counter, schedule_data,
                   loan_start_date, period_in_loan_year_counts, returned,
                   cashVars, mainVars>>

\* lines 246-355: the schedule came back with records; the results are
\* written to the sheet and the payoff time is printed.
WriteSummary ==
    /\ lmpc = "calling"
    /\ lpc = "done"
    /\ Len(returned.schedule) > 0
    /\ loan_summary' =
          [Loan_Paid_Off_In |-> payoff_time(returned.schedule),
           Total_Amount_of_Repayments |->
               total_amount_paid(returned.schedule, Len(returned.schedule)),
           printed |-> returned.schedule[1].Remaining_Term]
    /\ lmpc' = "done"
    /\ UNCHANGED <<answers, first_returned, terms, lpc, current_loan_balance, current_offset_balance,
                   period_counter, schedule_data, loan_start_date,
                   period_in_loan_year_counts, returned, cashVars, mainVars>>

\* lines 357-358: the call raised, or the schedule is empty and the column
\* lookup of line 255 raises; the handler prints the error and nothing is
\* reported.
ReportLoanError ==
    /\ lmpc = "calling"
    /\ \/ lpc = "error"
       \/ lpc = "done" /\ Len(returned.schedule) = 0
    /\ loan_summary' = [error |-> "An error occurred"]
    /\ lmpc' = "done"
    /\ UNCHANGED <<answers, first_returned, terms, lpc, current_loan_balance, current_offset_balance,
                   period_counter, schedule_data, loan_start_date,
                   period_in_loan_year_counts, returned, cashVars, mainVars>>

NextLoanMain ==
    \/ RejectAnswers
    \/ RejectTypedPaymentType
    \/ CallSchedule
    \/ WriteSummary
    \/ ReportLoanError

\* the main block with the engine it calls; the payment type it passes was
\* checked at line 207, so line 42 does not raise here.
NextLoanReport ==
    \/ NextLoanMain
    \/ RejectStartDate
    \/ StartSchedule
    \/ PayPeriod
    \/ ExitLoop
    \/ FinishSchedule

SpecLoanReport == InitLoanMain /\ [][NextLoanReport]_vars

\* either engine called more than once: the batch calls the cash-flow engine
\* for each of its dates, some of them equal; the amortization engine is
\* called twice with the same arguments.  A variable an engine writes keeps
\* its value from one call to the next unless the engine assigns it.
NextRuns ==
    \/ NextBatch
    \/ NextLoan
    \/ CallAgain

SpecRuns == (InitMain \/ InitLoan) /\ [][NextRuns]_vars

Init == InitLoan \/ InitCash \/ InitMain \/ InitLoanMain
Next == NextLoan \/ NextCash \/ NextMain \/ NextLoanMain
Spec == Init /\ [][Next]_vars

----------------------------------------------------------------------------
(* Amortization engine: properties *)

Ppy == periods_per_year(terms.payment_type)
Cap == max_periods(terms.duration_years, Ppy)
Rate == periodic_interest_rate(terms.annual_interest_rate, Ppy)
LoanRunning == lpc \in {"loop", "post", "done"}
LoopEnded == lpc \in {"post", "done"}

\* the interest of period 1: period-1 effective balance x periodic rate.
FirstInterest ==
    interest_paid(effective_loan_balance_for_interest(terms.loan_amount,
                                                      terms.offset_start_balance),
                  Rate)

RECURSIVE SumPrincipal(_)
SumPrincipal(n) ==
    IF n = 0 THEN 0 ELSE SumPrincipal(n - 1) + schedule_data[n].Principal_Paid

NeverNegative ==
    \A i \in 1..Len(schedule_data) : schedule_data[i].Remaining_Loan_Balance >= 0

NeverIncreases ==
    \A i \in 1..Len(schedule_data) :
        schedule_data[i].Remaining_Loan_Balance <= schedule_data[i].Starting_Loan_Balance

\* C1 (as claimed): for every loan with amount > 0, payment > 0 and rate >= 0
\* no record's ending balance exceeds its starting balance, and none is negative.
C1_Original == LoanRunning => (NeverIncreases /\ NeverNegative)

\* C1 (amended): no record has a negative ending balance; and when the payment
\* is at least the first period's interest and the offset does not shrink, no
\* record's ending balance exceeds its starting balance.
C1_BalanceMonotone ==
    LoanRunning =>
        /\ NeverNegative
        /\ (terms.payment_amount >= FirstInterest
                /\ terms.offset_growth_per_month >= 0) => NeverIncreases

C1_Witness ==
    /\ lpc = "done"
    /\ FirstInterest > 0
    /\ terms.payment_amount >= FirstInterest
    /\ terms.offset_growth_per_month >= 0
    /\ Len(schedule_data) >= 3
    /\ schedule_data[Len(schedule_data)].Remaining_Loan_Balance = 0
    /\ schedule_data[Len(schedule_data)].Payment < terms.payment_amount

\* C2 (as claimed): with rate > 0 and the payment above the first period's
\* interest, the loop ends with balance 0 after at most Cap periods.
C2_Original ==
    (LoopEnded /\ Rate > 0 /\ terms.payment_amount > FirstInterest) =>
        (current_loan_balance = 0 /\ period_counter <= Cap)

\* C2 (amended): with rate > 0, an offset that does not shrink, and a payment
\* that exceeds the first period's interest by at least loan / (Cap - 1), the
\* loop ends with balance 0 after at most Cap periods.
C2_PaysOffWithinCap ==
    (LoopEnded /\ Rate > 0 /\ terms.offset_growth_per_month >= 0
        /\ (terms.payment_amount - FirstInterest) * (Cap - 1) >= terms.loan_amount) =>
        (current_loan_balance = 0 /\ period_counter <= Cap)

C2_Witness ==
    /\ lpc = "done"
    /\ Rate > 0
    /\ FirstInterest > 0
    /\ terms.offset_growth_per_month >= 0
    /\ (terms.payment_amount - FirstInterest) * (Cap - 1) >= terms.loan_amount
    /\ current_loan_balance = 0
    /\ period_counter >= 2

CapExhausted ==
    /\ period_counter = Cap
    /\ Len(schedule_data) = Cap
    /\ schedule_data[Cap].Remaining_Loan_Balance > 0

\* C3 (as claimed): with rate > 0 and the payment not above the first period's
\* interest, the loop ends by exhausting the cap, whatever the offset start
\* balance and the offset growth.
C3_Original ==
    (LoopEnded /\ Rate > 0 /\ terms.payment_amount <= FirstInterest) => CapExhausted

\* C3 (amended): the same, for every offset start balance and every offset
\* growth that is not positive.
C3_HitsCapWithoutOffsetGrowth ==
    (LoopEnded /\ Rate > 0 /\ terms.payment_amount <= FirstInterest
        /\ terms.offset_growth_per_month <= 0) => CapExhausted

C3_Witness ==
    /\ lpc = "done"
    /\ Rate > 0
    /\ terms.payment_amount <= FirstInterest
    /\ terms.offset_growth_per_month <= 0
    /\ terms.offset_start_balance > 0
    /\ CapExhausted

\* C4: never more than Cap records are emitted; the loop ends only with the
\* balance at 0 or with exactly Cap records; a run whose balance is still
\* above 0 has emitted exactly Cap records.
C4_CapExact ==
    LoanRunning =>
        /\ Len(schedule_data) <= Cap
        /\ period_counter = Len(schedule_data)
        /\ LoopEnded => (current_loan_balance = 0 \/ Len(schedule_data) = Cap)
        /\ (LoopEnded /\ current_loan_balance > 0) => Len(schedule_data) = Cap

C4_Witness ==
    /\ lpc = "done"
    /\ current_loan_balance > 0
    /\ Len(schedule_data) = Cap

\* C5: a run that stopped at the safety cap with the balance above 0 returns,
\* with its schedule, a terminal reason that flags it as not amortized.
C5_CapRunIsFlagged ==
    (lpc = "done" /\ current_loan_balance > 0) =>
        /\ "terminal_reason" \in DOMAIN returned
        /\ returned["terminal_reason"] = "safety-cap reached"

\* C6 (as claimed): in every finished run the principal paid over all records
\* sums to the original loan amount.
C6_Original ==
    lpc = "done" => SumPrincipal(Len(schedule_data)) = terms.loan_amount

\* C6 (amended): the principal paid over all records sums to the original
\* loan amount minus the last ending balance; so it equals the loan amount in
\* every run that ends with balance 0.
C6_PrincipalSum ==
    /\ LoanRunning =>
          SumPrincipal(Len(schedule_data)) = terms.loan_amount - current_loan_balance
    /\ (lpc = "done" /\ current_loan_balance = 0) =>
          SumPrincipal(Len(schedule_data)) = terms.loan_amount

C6_Witness ==
    /\ lpc = "done"
    /\ current_loan_balance = 0
    /\ Len(schedule_data) >= 2
    /\ schedule_data[1].Interest_Paid > 0
    /\ schedule_data[Len(schedule_data)].Principal_Paid
          < principal_paid(terms.payment_amount,
                           schedule_data[Len(schedule_data)].Interest_Paid)

----------------------------------------------------------------------------
(* Cash-flow engine: properties *)

Data == cash_flow_data
FirstDay == strftime(analysis_start_date)
Window == analysis_start_date..end_date

\* the calls of add_cash_flow_event made for a date key, in call order.
CallsOn(key) == SelectSeq(add_calls, LAMBDA c : c.date_key = key)

\* the indices of the records dated on a date key.
RecordsOn(key) == {i \in 1..Len(Data) : Data[i].Date = key}

SetMax(S) == CHOOSE x \in S : \A y \in S : y <= x
SetMin(S) == CHOOSE x \in S : \A y \in S : x <= y

RECURSIVE SumAmounts(_, _)
\* the signed amounts of the first n entries of a list of calls.
SumAmounts(calls, n) == IF n = 0 THEN 0 ELSE SumAmounts(calls, n - 1) + calls[n].amount

\* the running balance of the last record of a day.
ClosingBalance(key) == Data[SetMax(RecordsOn(key))].Running_Balance

IsSeed(rec) == rec.Description[1][1] = "Starting Balance"

\* C7: the first record is the 'Starting Balance' seed with running balance
\* starting_balance and no later record is a seed; on every later day of the
\* window the closing balance is the previous day's closing balance plus the
\* signed amounts of all events scheduled for that day.
C7_DailyBalanceRecurrence ==
    cpc = "done" =>
        /\ IsSeed(Data[1])
        /\ Data[1].Date = FirstDay
        /\ Data[1].Running_Balance = cargs.starting_balance
        /\ \A i \in 2..Len(Data) : ~IsSeed(Data[i])
        /\ \A d \in Window :
              LET today == strftime(d)
                  yesterday == strftime(d - 1)
                  calls == CallsOn(today)
              IN  /\ RecordsOn(today) # {}
                  /\ d > analysis_start_date =>
                        ClosingBalance(today) = ClosingBalance(yesterday)
                            + SumAmounts(calls, Len(calls))

C7_Witness ==
    /\ cpc = "done"
    /\ cargs.starting_balance > 0
    /\ \E i \in 2..(Len(Data) - 1) :
          /\ Data[i].Date # FirstDay
          /\ Data[i].Date = Data[i + 1].Date
          /\ Data[i].Amount # 0
          /\ Data[i + 1].Amount # 0
          /\ Data[i + 1].Running_Balance # Data[i + 1].Amount

\* C8: on every date the records are the events inserted for that date, one
\* record each, in insertion order; the k-th record of the day carries the
\* balance before the day plus the first k amounts in insertion order.
C8_InsertionOrder ==
    cpc = "done" =>
        \A d \in Window :
            LET today == strftime(d)
                calls == CallsOn(today)
                recs == RecordsOn(today)
                first == SetMin(recs)
                before == IF first = 1 THEN 0 ELSE Data[first - 1].Running_Balance
            IN  Len(calls) > 0 =>
                  /\ recs = first..(first + Len(calls) - 1)
                  /\ \A k \in 1..Len(calls) :
                        /\ Data[first + k - 1].Description[1] = calls[k].description
                        /\ Data[first + k - 1].Amount = calls[k].amount
                        /\ Data[first + k - 1].Milestone = calls[k].milestone
                        /\ Data[first + k - 1].Running_Balance
                              = before + SumAmounts(calls, k)

\* a day whose three events are in neither ascending nor descending order of amount.
C8_Witness ==
    /\ cpc = "done"
    /\ \E i \in 1..(Len(Data) - 2) :
          /\ Data[i].Date = Data[i + 1].Date
          /\ Data[i + 1].Date = Data[i + 2].Date
          /\ Data[i].Amount > Data[i + 1].Amount
          /\ Data[i + 1].Amount < Data[i + 2].Amount
          /\ Data[i + 2].Description[2] = 3

\* the records that carry a scheduled event.
RecordsOf(call) ==
    {i \in 1..Len(Data) :
        /\ Data[i].Date = call.date_key
        /\ Data[i].Description[1] = call.description
        /\ Data[i].Amount = call.amount
        /\ Data[i].Milestone = call.milestone}

\* C9: every event placed in the schedule appears in exactly one emitted
\* record, and the amounts of all of them are applied to the running balance.
C9_EveryEventEmitted ==
    cpc = "done" =>
        /\ \A j \in 1..Len(add_calls) : Cardinality(RecordsOf(add_calls[j])) = 1
        /\ Data[Len(Data)].Running_Balance = SumAmounts(add_calls, Len(add_calls))

\* C10: the records run from 31/07/2025 to window_end_date; consecutive record
\* dates differ by 0 or 1 day; every day of the window has a record; a day with
\* no scheduled event has exactly one record, 'No transactions' with amount 0
\* and the balance of the record before it.
C10_ContiguousWindow ==
    cpc = "done" =>
        /\ Data[1].Date = <<31, 7, 2025>>
        /\ Data[Len(Data)].Date = strftime(end_date)
        /\ \A i \in 1..(Len(Data) - 1) :
              strptime(Data[i + 1].Date) - strptime(Data[i].Date) \in {0, 1}
        /\ \A d \in Window :
              LET today == strftime(d)
                  recs == RecordsOn(today)
                  i == SetMin(recs)
              IN  /\ recs # {}
                  /\ Len(CallsOn(today)) = 0 =>
                        /\ Cardinality(recs) = 1
                        /\ Data[i].Amount = 0
                        /\ Data[i].Description = << <<"No transactions", 0>>, 0, 0 >>
                        /\ Data[i].Milestone = ""
                        /\ i > 1
                        /\ Data[i].Running_Balance = Data[i - 1].Running_Balance

C10_Witness ==
    /\ cpc = "done"
    /\ Len(Data) > 60
    /\ \E i \in 2..Len(Data) :
          /\ Data[i].Description[1][1] = "No transactions"
          /\ Data[i].Running_Balance # 0
          /\ Data[i - 1].Amount # 0

\* the derived dates have been computed (lines 23-34).
DatesComputed == settlement_date # 0

\* C11 (as claimed): a Wednesday settlement moves out exactly 11 days later.
C11_Original ==
    (DatesComputed /\ Weekday(settlement_date) = 2) =>
        move_out_date = settlement_date + 11

\* C11 (amended): a Wednesday settlement moves out exactly 10 days later
\* (the Saturday after the Sunday that follows it).
C11_WednesdayMoveOut ==
    (DatesComputed /\ Weekday(settlement_date) = 2) =>
        move_out_date = settlement_date + 10

C11_Witness ==
    /\ cpc = "done"
    /\ Weekday(settlement_date) = 2
    /\ returned.move_out_date = settlement_date + 10
    /\ Weekday(returned.move_out_date) = 5

\* the first Sunday strictly after a date.
FirstSundayAfter(date) == CHOOSE d \in (date + 1)..(date + 7) : Weekday(d) = 6

\* C12: the move-out date is the first Sunday strictly after the settlement
\* date plus 6 days: a Saturday, 7 to 13 days after settlement, and exactly 13
\* days after a Sunday settlement.
C12_MoveOutRule ==
    DatesComputed =>
        /\ move_out_date = FirstSundayAfter(settlement_date) + 6
        /\ Weekday(move_out_date) = 5
        /\ move_out_date - settlement_date \in 7..13
        /\ Weekday(settlement_date) = 6 => move_out_date = settlement_date + 13

C12_Witness ==
    /\ cpc = "done"
    /\ Weekday(settlement_date) = 6
    /\ returned.move_out_date = settlement_date + 13

\* C13: for every valid calendar settlement date the engine completes, and
\* the window end it returns is the settlement date two calendar months later
\* (same day of month, the year incremented for November and December).
C13_WindowEndForEveryDate ==
    (Parses(cargs.settlement_date_str) /\ cpc \in {"done", "error"}) =>
        /\ cpc = "done"
        /\ LET str == cargs.settlement_date_str
               months == str[2] + 2
           IN  strftime(returned.end_date)
                  = << str[1],
                       IF months > 12 THEN months - 12 ELSE months,
                       IF months > 12 THEN str[3] + 1 ELSE str[3] >>

RECURSIVE SumRows(_, _)
\* the signed amounts of the first n records of a list of records.
SumRows(rows, n) == IF n = 0 THEN 0 ELSE SumRows(rows, n - 1) + rows[n].Amount

\* the signed total of the returned records tagged with a category.
CategoryTotal(tag) ==
    LET rows == SelectSeq(returned.df, LAMBDA r : r.Milestone = tag)
    IN  SumRows(rows, Len(rows))

IncomeTotals ==
    CategoryTotal("INCOME") + CategoryTotal("PRE-SETTLEMENT INCOME")
        + CategoryTotal("MONTHLY INCOME")

\* the expense categories as magnitudes.
ExpenseTotals ==
    0 - (CategoryTotal("SETTLEMENT") + CategoryTotal("POST-SETTLEMENT")
            + CategoryTotal("MOVING") + CategoryTotal("MORTGAGE"))

Recomputed == CategoryTotal("INITIAL") + IncomeTotals - ExpenseTotals

\* C14: the summary's final balance is the last record's running balance and
\* equals INITIAL plus every income category minus every expense category of
\* the returned records; the status is VIABLE exactly when that value is >= 0.
C14_FinalBalanceRecomputed ==
    cpc = "done" =>
        LET summary == returned.financial_summary
            total == Recomputed
        IN  /\ summary.final_balance = returned.df[Len(returned.df)].Running_Balance
            /\ summary.final_balance = total
            /\ Status(summary) = "VIABLE" <=> total >= 0

C14_Witness ==
    /\ cpc = "done"
    /\ cargs.starting_balance = 93000
    /\ Len(returned.df) > 30
    /\ CategoryTotal("MORTGAGE") < 0
    /\ returned.financial_summary.final_balance = Recomputed
    /\ Status(returned.financial_summary) = "VIABLE"

ExpensesAsInSummary(summary) ==
    /\ summary.total_settlement_expenses = 0 - CategoryTotal("SETTLEMENT")
    /\ summary.total_post_settlement = 0 - CategoryTotal("POST-SETTLEMENT")
    /\ summary.total_moving_expenses = 0 - CategoryTotal("MOVING")
    /\ summary.total_mortgage_payments = 0 - CategoryTotal("MORTGAGE")
    /\ summary.total_expenses = ExpenseTotals
    /\ summary.total_expenses >= 0

\* C15 as stated: total income includes the INITIAL category.
C15_Original ==
    cpc = "done" =>
        LET summary == returned.financial_summary
        IN  /\ summary.total_income = CategoryTotal("INITIAL") + IncomeTotals
            /\ ExpensesAsInSummary(summary)
            /\ summary.net_change = summary.total_income - summary.total_expenses

\* C15: total income is the sum of the INCOME, PRE-SETTLEMENT INCOME and
\* MONTHLY INCOME category totals (the INITIAL category is not part of it),
\* total expenses is the magnitude of the SETTLEMENT, POST-SETTLEMENT, MOVING
\* and MORTGAGE totals, and net change = total income - total expenses.
C15_SummaryTotals ==
    cpc = "done" =>
        LET summary == returned.financial_summary
        IN  /\ summary.total_income = IncomeTotals
            /\ ExpensesAsInSummary(summary)
            /\ summary.net_change = IncomeTotals - ExpenseTotals
            /\ summary.final_balance = CategoryTotal("INITIAL") + summary.net_change

C15_Witness ==
    /\ cpc = "done"
    /\ CategoryTotal("INITIAL") = 93000
    /\ CategoryTotal("PRE-SETTLEMENT INCOME") > 0
    /\ CategoryTotal("MONTHLY INCOME") > 0
    /\ returned.financial_summary.total_income = IncomeTotals
    /\ returned.financial_summary.total_expenses > 0

\* the record's payment would overpay the loan.
Clamped(rec) ==
    rec.Starting_Loan_Balance - (terms.payment_amount - rec.Interest_Paid) < 0

\* C20: in every record the principal paid is at most the starting balance;
\* the payment is the scheduled payment except in a clamped final record,
\* where principal paid = starting balance, payment = principal + interest
\* (at most the scheduled payment) and the ending balance is 0; a record with
\* ending balance 0 is the last one.
C20_ClampedFinalPayment ==
    LoanRunning =>
        \A i \in 1..Len(schedule_data) :
            LET rec == schedule_data[i]
            IN  /\ rec.Principal_Paid <= rec.Starting_Loan_Balance
                /\ ~Clamped(rec) => rec.Payment = terms.payment_amount
                /\ Clamped(rec) =>
                      /\ rec.Principal_Paid = rec.Starting_Loan_Balance
                      /\ rec.Payment = rec.Principal_Paid + rec.Interest_Paid
                      /\ rec.Payment <= terms.payment_amount
                      /\ rec.Remaining_Loan_Balance = 0
                /\ rec.Remaining_Loan_Balance = 0 => i = Len(schedule_data)
                /\ i < Len(schedule_data) => rec.Remaining_Loan_Balance > 0

C20_Witness ==
    /\ lpc = "done"
    /\ Len(schedule_data) >= 2
    /\ LET last == schedule_data[Len(schedule_data)]
       IN  /\ Clamped(last)
           /\ last.Interest_Paid > 0
           /\ last.Payment < terms.payment_amount
           /\ last.Remaining_Loan_Balance = 0
    /\ \A i \in 1..(Len(schedule_data) - 1) :
          schedule_data[i].Payment = terms.payment_amount

----------------------------------------------------------------------------
(* Scenario batch: properties *)

Scenarios == 1..Len(scenarios_data)
FinalBalanceOf(i) == scenarios_data[i].financial_summary.final_balance

\* the input positions attaining the maximum / minimum final balance.
MaxPositions == {i \in Scenarios : \A j \in Scenarios : FinalBalanceOf(j) <= FinalBalanceOf(i)}
MinPositions == {i \in Scenarios : \A j \in Scenarios : FinalBalanceOf(i) <= FinalBalanceOf(j)}

\* C16: the best scenario is the first one in input order attaining the
\* maximum final balance, the worst the first one attaining the minimum; the
\* reported numbers are their 1-based input positions.
C16_BestWorstFirstInInputOrder ==
    mpc = "done" =>
        /\ report.best_idx = SetMin(MaxPositions)
        /\ report.worst_idx = SetMin(MinPositions)
        /\ report.best_date = settlement_dates[report.best_idx]
        /\ report.worst_date = settlement_dates[report.worst_idx]
        /\ report.best_balance = FinalBalanceOf(report.best_idx)
        /\ report.worst_balance = FinalBalanceOf(report.worst_idx)

C16_Witness ==
    /\ mpc = "done"
    /\ \E i, j \in MaxPositions : settlement_dates[i] # settlement_dates[j]
    /\ \E i \in Scenarios : i \notin MaxPositions
    /\ strptime(settlement_dates[2]) < strptime(settlement_dates[1])
    /\ report.best_idx = SetMin(MaxPositions)
    /\ report.best_idx > 1
    /\ report.worst_idx = SetMin(MinPositions)

\* the settlement dates of a presented list do not decrease.
Ascending(dates) ==
    \A i \in 1..(Len(dates) - 1) : strptime(dates[i]) <= strptime(dates[i + 1])

\* C17: the per-scenario sheets, the rows of the summary comparison and the
\* printed scenario summary are all ordered by settlement date ascending.
C17_PresentedInDateOrder ==
    mpc = "done" =>
        /\ Ascending([i \in 1..Len(report.sheets) |-> report.sheets[i].settlement_date])
        /\ Ascending([i \in 1..Len(report.summary_data) |->
                          report.summary_data[i].Settlement_Date])
        /\ Ascending([i \in 1..Len(report.printed) |->
                          report.printed[i].Settlement_Date])

RECURSIVE RunIncome(_, _, _)
\* the recurring income events of a run, month by month.
RunIncome(month, settlement, last) ==
    IF month > last THEN <<>>
    ELSE MonthlyIncomeEvents(month, settlement)
            \o RunIncome(NextMonth(month), settlement, last)

RECURSIVE RunMortgage(_, _, _)
\* the mortgage payment events of a run.
RunMortgage(date, number, last) ==
    IF date > last THEN <<>>
    ELSE << Event(date, "Mortgage Payment #", number, -2410, "MORTGAGE") >>
            \o RunMortgage(date + 14, number + 1, last)

RECURSIVE RunRecords(_, _, _, _)
\* the records of a run from a day to the end of the window.
RunRecords(date, balance, events, last) ==
    IF date > last THEN <<>>
    ELSE LET rows == DayRecords(date, balance, events)
             closing == IF Len(rows) = 0 THEN balance
                        ELSE rows[Len(rows)].Running_Balance
         IN  rows \o RunRecords(date + 1, closing, events, last)

\* what one call of the engine alone returns for a balance and a date.
SingleRun(balance, settlement_date_str) ==
    LET settlement == strptime(settlement_date_str)
        move_out == MoveOutDate(settlement)
        last == EndDate(settlement)
        calls == FixedEvents(balance, settlement, move_out)
                    \o RunIncome(ToOrdinal(2025, 8, 1), settlement, last)
                    \o RunMortgage(settlement + 14, 1, last)
        events == AddAll(<<>>, calls, Len(calls))
        records == RunRecords(analysis_start_date, 0, events, last)
    IN  [settlement_date |-> settlement_date_str,
         analysis_df |-> records,
         move_out_date |-> move_out,
         end_date |-> last,
         financial_summary |-> FinancialSummary(records)]

\* the result kept for scenario i, its records with the six columns the
\* engine returned (the report adds a parsed date to every record).
Kept(i) ==
    [scenarios_data[i] EXCEPT !.analysis_df =
        [k \in 1..Len(@) |->
            [Date |-> @[k].Date,
             Day_of_Week |-> @[k].Day_of_Week,
             Milestone |-> @[k].Milestone,
             Description |-> @[k].Description,
             Amount |-> @[k].Amount,
             Running_Balance |-> @[k].Running_Balance]]]

\* C18: nothing is carried from one run of an engine to the next.  The
\* result kept for a settlement date in a batch is what a call of the
\* cash-flow engine alone returns for (starting balance, that date), whatever
\* ran before it in the batch; two entries of a batch with the same date
\* carry identical records and summaries; and a second call of the
\* amortization engine with the arguments of the first, made where the first
\* call ended, returns what the first returned.
C18_RunsIndependent ==
    /\ (mpc \in {"calc", "done"}) =>
          /\ \A i \in Scenarios :
                Kept(i) = SingleRun(starting_balance, settlement_dates[i])
          /\ \A i, j \in Scenarios :
                settlement_dates[i] = settlement_dates[j] =>
                    /\ scenarios_data[i].analysis_df = scenarios_data[j].analysis_df
                    /\ scenarios_data[i].financial_summary
                          = scenarios_data[j].financial_summary
    /\ (first_returned # NoValue /\ lpc \in {"done", "error"}) =>
          returned = first_returned

C18_Witness ==
    /\ mpc = "done"
    /\ \E i, j \in Scenarios :
          /\ i + 1 < j
          /\ settlement_dates[i] = settlement_dates[j]
          /\ settlement_dates[i + 1] # settlement_dates[i]
          /\ scenarios_data[i].analysis_df = scenarios_data[j].analysis_df
          /\ Kept(j) = SingleRun(starting_balance, settlement_dates[j])
          /\ scenarios_data[i + 1].analysis_df # scenarios_data[i].analysis_df

\* the date typed at prompt i (the default when the line is empty).
Entered(i) ==
    IF inputs.date_inputs[i] # NoInput THEN inputs.date_inputs[i] ELSE default_dates[i]

BatchEnded == mpc \in {"done", "aborted"}

\* C19: a batch is never aborted by one scenario: once it has ended, all
\* scenarios are computed and reported, an entered date that does not parse
\* is replaced by the default of its position, and every other entered date
\* is reported as entered or, when its simulation fails, as that default.
C19_FailureIsolated ==
    BatchEnded =>
        /\ mpc = "done"
        /\ Len(scenarios_data) = ScenarioCount
        /\ Len(report.summary_data) = ScenarioCount
        /\ \A i \in 1..ScenarioCount :
              /\ ~Parses(Entered(i)) => scenarios_data[i].settlement_date = default_dates[i]
              /\ scenarios_data[i].settlement_date \in {Entered(i), default_dates[i]}

\* C21: in every record the effective balance is max(0, starting balance -
\* offset balance) and never negative, interest = effective balance x periodic
\* rate, and principal = the record's payment - interest (the scheduled payment
\* unless the record is clamped); when the offset is at least the starting
\* balance the interest is 0 and the whole payment is principal.
C21_InterestOnEffectiveBalance ==
    LoanRunning =>
        \A i \in 1..Len(schedule_data) :
            LET rec == schedule_data[i]
                net == rec.Starting_Loan_Balance - rec.Offset_Account_Balance
            IN  /\ rec.Effective_Loan_Balance = (IF net > 0 THEN net ELSE 0)
                /\ rec.Effective_Loan_Balance >= 0
                /\ rec.Interest_Paid = rec.Effective_Loan_Balance * Rate
                /\ rec.Principal_Paid = rec.Payment - rec.Interest_Paid
                /\ ~Clamped(rec) =>
                      rec.Principal_Paid = terms.payment_amount - rec.Interest_Paid
                /\ rec.Offset_Account_Balance >= rec.Starting_Loan_Balance =>
                      /\ rec.Interest_Paid = 0
                      /\ rec.Principal_Paid = rec.Payment

C21_Witness ==
    /\ lpc = "done"
    /\ Rate > 0
    /\ \E i, j \in 1..Len(schedule_data) :
          /\ schedule_data[i].Interest_Paid > 0
          /\ schedule_data[j].Offset_Account_Balance > schedule_data[j].Starting_Loan_Balance
          /\ schedule_data[j].Effective_Loan_Balance = 0
          /\ schedule_data[j].Interest_Paid = 0
          /\ schedule_data[j].Principal_Paid = schedule_data[j].Payment

\* C22: the offset balance recorded, and used for interest, in period n is
\* offset_start_balance + (n - 1) x growth per period, where growth per period
\* x periods_per_year = monthly growth x 12; the balance carried to the next
\* period has grown once more; it may exceed the loan balance.
C22_OffsetGrowsLinearly ==
    LoanRunning =>
        /\ \A n \in 1..Len(schedule_data) :
              LET rec == schedule_data[n]
                  grown == rec.Offset_Account_Balance - terms.offset_start_balance
                  net == rec.Starting_Loan_Balance - rec.Offset_Account_Balance
              IN  /\ grown * Ppy = (n - 1) * terms.offset_growth_per_month * 12
                  /\ rec.Effective_Loan_Balance = (IF net > 0 THEN net ELSE 0)
        /\ (current_offset_balance - terms.offset_start_balance) * Ppy
              = Len(schedule_data) * terms.offset_growth_per_month * 12

C22_Witness ==
    /\ lpc = "done"
    /\ Ppy > 12
    /\ terms.offset_growth_per_month > 0
    /\ Len(schedule_data) >= 3
    /\ LET last == schedule_data[Len(schedule_data)]
       IN  /\ last.Offset_Account_Balance > last.Starting_Loan_Balance
           /\ last.Offset_Account_Balance > terms.loan_amount
           /\ last.Offset_Account_Balance > terms.offset_start_balance
    /\ schedule_data[1].Offset_Account_Balance = terms.offset_start_balance

\* the integer nearest to num / den (the even one of two equally near).
Nearest(num, den) ==
    CHOOSE k \in 0..(num \div den + 1) :
        \/ 2 * Abs(k * den - num) < den
        \/ 2 * Abs(k * den - num) = den /\ k % 2 = 0

\* a remaining term in months.
TermMonths(term) == term.years * 12 + term.months

\* C25: after the post-pass record i carries r = N - i remaining periods as
\* r div periods_per_year years and round((r mod periods_per_year) x 12 /
\* periods_per_year) months, twelve months being carried into the years; the
\* months are in 0..11, the last record reads 0 years 0 months and the
\* remaining term never increases along the records.
C25_RemainingTerm ==
    lpc = "done" =>
        LET rows == returned.schedule
            N == Len(rows)
        IN  /\ N = Len(schedule_data)
            /\ N = period_counter
            /\ \A i \in 1..N :
                  LET r == N - i
                      months == Nearest((r % Ppy) * 12, Ppy)
                      term == rows[i].Remaining_Term
                  IN  /\ rows[i].row = schedule_data[i]
                      /\ term.years = (IF months = 12 THEN r \div Ppy + 1 ELSE r \div Ppy)
                      /\ term.months = (IF months = 12 THEN 0 ELSE months)
                      /\ term.months \in 0..11
            /\ N > 0 => rows[N].Remaining_Term = [years |-> 0, months |-> 0]
            /\ \A i \in 1..(N - 1) :
                  TermMonths(rows[i + 1].Remaining_Term) <= TermMonths(rows[i].Remaining_Term)

C25_Witness ==
    /\ lpc = "done"
    /\ Ppy = 52
    /\ Len(returned.schedule) > 52
    /\ \E i \in 1..Len(returned.schedule) :
          LET r == Len(returned.schedule) - i
          IN  /\ r % Ppy >= 50
              /\ Nearest((r % Ppy) * 12, Ppy) = 12
              /\ returned.schedule[i].Remaining_Term = [years |-> r \div Ppy + 1, months |-> 0]
    /\ returned.schedule[Len(returned.schedule)].Remaining_Term = [years |-> 0, months |-> 0]

\* C29: the records are numbered 1..N; record 1 starts from the loan amount;
\* every record ends at its starting balance minus its principal paid; every
\* later record starts from the ending balance of the record before it.
C29_RecordsChain ==
    LoanRunning =>
        /\ \A n \in 1..Len(schedule_data) :
              LET rec == schedule_data[n]
              IN  /\ rec.Period = n
                  /\ rec.Remaining_Loan_Balance
                        = rec.Starting_Loan_Balance - rec.Principal_Paid
                  /\ n = 1 => rec.Starting_Loan_Balance = terms.loan_amount
                  /\ n > 1 => rec.Starting_Loan_Balance
                                 = schedule_data[n - 1].Remaining_Loan_Balance
        /\ Len(schedule_data) = period_counter
        /\ Len(schedule_data) > 0 =>
              current_loan_balance = schedule_data[Len(schedule_data)].Remaining_Loan_Balance

C29_Witness ==
    /\ lpc = "done"
    /\ Len(schedule_data) >= 3
    /\ Rate > 0
    /\ Clamped(schedule_data[Len(schedule_data)])
    /\ schedule_data[1].Starting_Loan_Balance = terms.loan_amount
    /\ schedule_data[2].Starting_Loan_Balance = schedule_data[1].Remaining_Loan_Balance
    /\ schedule_data[2].Starting_Loan_Balance # schedule_data[1].Starting_Loan_Balance
    /\ schedule_data[Len(schedule_data)].Period = Len(schedule_data)

\* the income loop has ended.
IncomeScheduled == cpc \in {"mortgage", "done"}

RecurringTags == {"PRE-SETTLEMENT INCOME", "MONTHLY INCOME"}

\* the calls that schedule recurring income, in call order.
RecurringCalls == SelectSeq(add_calls, LAMBDA c : c.milestone \in RecurringTags)

\* the first days of the months after the anchor month, up to the window end.
FirstsAfterAnchor ==
    {d \in {ToOrdinal(2025, m, 1) : m \in 9..12} \cup {ToOrdinal(2026, m, 1) : m \in 1..12} :
        d <= end_date}

\* the (amount, tag) pairs of the recurring calls made for a date key.
RecurringOn(key) ==
    LET calls == SelectSeq(RecurringCalls, LAMBDA c : c.date_key = key)
    IN  [i \in 1..Len(calls) |-> <<calls[i].amount, calls[i].milestone>>]

\* C26: on every first of a month after the anchor month and up to the window
\* end, two PRE-SETTLEMENT INCOME events (5700, 500) are scheduled when the day
\* is strictly before the settlement date and one MONTHLY INCOME event (8261)
\* otherwise; no recurring income is scheduled on any other day.
C26_RecurringIncome ==
    IncomeScheduled =>
        LET keys == [d \in FirstsAfterAnchor |-> strftime(d)]
        IN  /\ \A d \in FirstsAfterAnchor :
                  RecurringOn(keys[d]) =
                      IF d < settlement_date
                      THEN << <<5700, "PRE-SETTLEMENT INCOME">>,
                              <<500, "PRE-SETTLEMENT INCOME">> >>
                      ELSE << <<8261, "MONTHLY INCOME">> >>
            /\ \A i \in 1..Len(RecurringCalls) :
                  \E d \in FirstsAfterAnchor : RecurringCalls[i].date_key = keys[d]

C26_Witness ==
    /\ cpc = "done"
    /\ DayOf(settlement_date) = 1
    /\ settlement_date \in FirstsAfterAnchor
    /\ RecurringOn(strftime(settlement_date)) = << <<8261, "MONTHLY INCOME">> >>
    /\ \E d \in FirstsAfterAnchor :
          /\ d < settlement_date
          /\ Len(RecurringOn(strftime(d))) = 2
    /\ \E d \in FirstsAfterAnchor : d > settlement_date

AnchorKey == strftime(start_date)

\* the (amount, tag) pairs of the calls made for the anchor date with a tag.
AnchorCalls(tag) ==
    LET calls == SelectSeq(add_calls,
                           LAMBDA c : c.date_key = AnchorKey /\ c.milestone = tag)
    IN  [i \in 1..Len(calls) |-> calls[i].amount]

OneOffIncomeOnAnchor == AnchorCalls("INCOME") = <<5700, 1200, 500>>

\* C27 as stated: when the anchor date precedes the settlement date, the
\* pre-settlement recurring savings, with the anchor-month-only 1200, are
\* scheduled on the anchor date in addition to the one-off INCOME events.
C27_Original ==
    (IncomeScheduled /\ start_date < settlement_date) =>
        /\ OneOffIncomeOnAnchor
        /\ AnchorCalls("PRE-SETTLEMENT INCOME") = <<5700, 500, 1200>>

\* C27: recurring income is not scheduled in the anchor month: for every
\* settlement date the anchor date carries the three one-off INCOME events
\* (5700, 1200, 500) and no PRE-SETTLEMENT INCOME or MONTHLY INCOME event, and
\* no PRE-SETTLEMENT INCOME event of 1200 is scheduled on any date.
C27_NoRecurringIncomeInAnchorMonth ==
    IncomeScheduled =>
        /\ OneOffIncomeOnAnchor
        /\ AnchorCalls("PRE-SETTLEMENT INCOME") = <<>>
        /\ AnchorCalls("MONTHLY INCOME") = <<>>
        /\ \A i \in 1..Len(RecurringCalls) :
              /\ RecurringCalls[i].amount \in {5700, 500, 8261}
              /\ RecurringCalls[i].date_key # AnchorKey

C27_Witness ==
    /\ cpc = "done"
    /\ start_date < settlement_date
    /\ ToOrdinal(2025, 9, 1) < settlement_date
    /\ OneOffIncomeOnAnchor
    /\ AnchorCalls("PRE-SETTLEMENT INCOME") = <<>>
    /\ RecurringOn(strftime(ToOrdinal(2025, 9, 1)))
          = << <<5700, "PRE-SETTLEMENT INCOME">>, <<500, "PRE-SETTLEMENT INCOME">> >>

\* the mortgage loop has ended (first state after it, and the end of the run).
MortgageScheduled ==
    \/ cpc = "done"
    \/ cpc = "daily" /\ current_date = analysis_start_date

MortgageCalls == SelectSeq(add_calls, LAMBDA c : c.milestone = "MORTGAGE")

\* C28: the mortgage payments are the events of -2410 on settlement + 14k
\* days for every k >= 1 with settlement + 14k <= window end, numbered k; there
\* are floor((window end - settlement) / 14) of them, none on the settlement
\* date and none after the window end.
C28_MortgagePayments ==
    MortgageScheduled =>
        LET count == (end_date - settlement_date) \div 14
            SettlementKey == strftime(settlement_date)
        IN  /\ Len(MortgageCalls) = count
            /\ \A k \in 1..count :
                  /\ settlement_date + 14 * k <= end_date
                  /\ MortgageCalls[k].date_key = strftime(settlement_date + 14 * k)
                  /\ MortgageCalls[k].amount = -2410
                  /\ MortgageCalls[k].description = <<"Mortgage Payment #", k>>
                  /\ MortgageCalls[k].date_key # SettlementKey
            /\ settlement_date + 14 * (count + 1) > end_date

C28_Witness ==
    /\ cpc = "done"
    /\ Len(MortgageCalls) = 4
    /\ end_date - settlement_date > 56
    /\ MortgageCalls[1].date_key = strftime(settlement_date + 14)
    /\ MortgageCalls[4].date_key = strftime(settlement_date + 56)
    /\ MortgageCalls[4].description = <<"Mortgage Payment #", 4>>


\* the schedule is complete and has been returned.
ScheduleReturned == lpc = "done"

\* (month, day) of the date string a is on or after (month, day) of b.
OnOrAfterInYear(a, b) == (a[2] > b[2]) \/ (a[2] = b[2] /\ a[1] >= b[1])

\* C23: in every record the loan-year is the payment's calendar year minus the
\* start year, plus 1 when the payment's (month, day) is on or after the start
\* date's (month, day); the period-within-loan-year is 1 on the first record
\* of a loan-year and one more than the previous record's otherwise; the first
\* record has loan-year 1 and period 1; the loan-year never decreases.
C23_LoanYearAndPeriod ==
    ScheduleReturned =>
        \A n \in 1..Len(schedule_data) :
            LET rec == schedule_data[n]
                first_of_year == \A m \in 1..(n - 1) : schedule_data[m].Year # rec.Year
            IN  /\ rec.Year = rec.Payment_Date[3] - terms.loan_start_date_str[3]
                                + (IF OnOrAfterInYear(rec.Payment_Date,
                                                      terms.loan_start_date_str)
                                   THEN 1 ELSE 0)
                /\ rec.Period_in_Year = IF first_of_year THEN 1
                                        ELSE schedule_data[n - 1].Period_in_Year + 1
                /\ n = 1 => rec.Year = 1 /\ rec.Period_in_Year = 1
                /\ n > 1 => rec.Year >= schedule_data[n - 1].Year

\* a returned schedule that enters its second loan-year exactly on the
\* anniversary of the start date, after a turn of the calendar year inside
\* the first loan-year.
C23_Witness ==
    /\ ScheduleReturned
    /\ \E n \in 2..Len(schedule_data) :
          /\ schedule_data[n].Year = 2
          /\ schedule_data[n].Period_in_Year = 1
          /\ schedule_data[n - 1].Year = 1
          /\ schedule_data[n - 1].Period_in_Year = n - 1
          /\ schedule_data[n].Payment_Date[1] = terms.loan_start_date_str[1]
          /\ schedule_data[n].Payment_Date[2] = terms.loan_start_date_str[2]
          /\ n < Len(schedule_data)
          /\ schedule_data[n + 1].Period_in_Year = 2
    /\ \E n \in 1..Len(schedule_data) :
          /\ schedule_data[n].Year = 1
          /\ schedule_data[n].Payment_Date[3] = terms.loan_start_date_str[3] + 1

\* the days from the loan start to the payment of period n.
DaysToPeriod(n) ==
    CASE terms.payment_type = "Fortnightly" -> 14 * (n - 1)
      [] terms.payment_type = "Weekly" -> 7 * (n - 1)
      [] terms.payment_type = "Monthly" -> (487 * (n - 1)) \div 16

\* C24: the payment of period n is dated 14 x (n-1) days (Fortnightly) or
\* 7 x (n-1) days (Weekly) after the loan start date, and for Monthly
\* (n-1) x 365.25/12 days after it, truncated to the calendar date; period 1
\* is dated on the loan start date and the dates strictly increase.
C24_PaymentDates ==
    ScheduleReturned =>
        \A n \in 1..Len(schedule_data) :
            LET rec == schedule_data[n]
            IN  /\ rec.Payment_Date
                      = strftime(strptime(terms.loan_start_date_str) + DaysToPeriod(n))
                /\ n = 1 => rec.Payment_Date = terms.loan_start_date_str
                /\ n > 1 => strptime(rec.Payment_Date)
                               > strptime(schedule_data[n - 1].Payment_Date)

\* a returned Monthly schedule of more than a year whose payments do not keep
\* the day of the month of the start date.
C24_Witness ==
    /\ ScheduleReturned
    /\ terms.payment_type = "Monthly"
    /\ Len(schedule_data) > 12
    /\ schedule_data[1].Payment_Date = terms.loan_start_date_str
    /\ schedule_data[2].Payment_Date[1] # terms.loan_start_date_str[1]
    /\ strptime(schedule_data[13].Payment_Date)
          = strptime(terms.loan_start_date_str) + 365


----------------------------------------------------------------------------
(* Loan calculator: properties *)

\* the results of a schedule with records have been written.
SummaryWritten == lmpc = "done" /\ "error" \notin DOMAIN loan_summary

RECURSIVE SumPayments(_)
\* the payments of the first n records of the schedule.
SumPayments(n) == IF n = 0 THEN 0 ELSE SumPayments(n - 1) + schedule_data[n].Payment

\* the term of r remaining periods: whole years, and the months nearest to the
\* rest, twelve of them counting as one more year.
TermOfPeriods(r) ==
    LET months == Nearest((r % Ppy) * 12, Ppy)
    IN  IF months = 12 THEN [years |-> r \div Ppy + 1, months |-> 0]
        ELSE [years |-> r \div Ppy, months |-> months]

\* C30: 'Loan Paid Off In' is the remaining term stored on the first record,
\* which is the term of N - 1 periods (N = the number of records), and 'Total
\* Amount of Repayments' is the sum of the payments of all N records.
C30_ReportedFigures ==
    SummaryWritten =>
        LET N == Len(schedule_data)
        IN  /\ N = period_counter
            /\ N >= 1
            /\ loan_summary.Loan_Paid_Off_In = returned.schedule[1].Remaining_Term
            /\ loan_summary.Loan_Paid_Off_In = TermOfPeriods(N - 1)
            /\ loan_summary.printed = loan_summary.Loan_Paid_Off_In
            /\ loan_summary.Total_Amount_of_Repayments = SumPayments(N)

\* results written for a schedule whose N periods make a longer term than the
\* N - 1 reported, and whose last payment is smaller than the scheduled one.
C30_Witness ==
    /\ SummaryWritten
    /\ Len(schedule_data) >= 3
    /\ loan_summary.Loan_Paid_Off_In = TermOfPeriods(Len(schedule_data) - 1)
    /\ TermOfPeriods(Len(schedule_data)) # TermOfPeriods(Len(schedule_data) - 1)
    /\ schedule_data[Len(schedule_data)].Payment < terms.payment_amount
    /\ loan_summary.Total_Amount_of_Repayments = terms.loan_amount
    /\ loan_summary.Total_Amount_of_Repayments < Len(schedule_data) * terms.payment_amount

=============================================================================
